---- MODULE Spec2Model ----
(***************************************************************************)
(* Request lifecycle of the analytics AI service: the per-query job record *)
(* kept in a TTL cache, the background task that advances it through its  *)
(* stages, and the stop / poll handlers that run beside it.                *)
(*                                                                         *)
(* The event loop interleaves a background task with the other handlers    *)
(* only where the task awaits a pipeline, so one action is the code from   *)
(* the return of one awaited pipeline call up to the next awaited call.    *)
(* The outcome of a pipeline call (its result, or an exception) is chosen  *)
(* when the call returns.                                                  *)
(***************************************************************************)
EXTENDS Integers, Sequences, FiniteSets, TLC

\* Python's None, for string-valued fields.
None == "None"

\* Ticks of the cache timer after which an entry has expired (ttl).
TTL == 2

\* Longest document list the historical_question pipeline returns.
MaxDocs == 2

\* AskService.__init__: max_sql_correction_retries.
max_sql_correction_retries == 3

\* Most chunks the generators hand to _streaming_callback, all query ids
\* taken together.
MaxChunks == 2

\* Ticks of the clock that make up the timeout of asyncio.wait_for (120 s).
StreamTimeout == 1

\* Most candidate questions the question_recommendation pipeline returns in
\* one round.
MaxCandidates == 2

\* Most pipeline components left out of the pipe_components given to a builder.
MaxMissing == 1

VARIABLES
    cfg,             \* AskService flags fixed at construction
    req,             \* the AskRequest of the job
    ask_results,     \* the TTL cache entry of the job's query id
    task,            \* the locals and the position of the ask background task
    stop_requested,  \* history: stop_ask ran for this query id
    chart_results,              \* ChartService: the cache entry of the chart job
    chart,                      \* the chart background task
    chart_adjustment_results,   \* ChartAdjustmentService: the cache entry of the job
    chart_adjustment,           \* the chart adjustment background task
    feedback_cfg,               \* AskFeedbackService flags fixed at construction
    ask_feedback_results,       \* AskFeedbackService: the cache entry of the job
    ask_feedback,               \* the ask feedback background task
    user_queues,        \* a streaming pipeline: _user_queues, per query id
    put_tasks,          \* the event loop: the put() tasks created and not yet run
    received,           \* history: the chunk contents _streaming_callback received
    finish_seen,        \* history: a chunk with a finish_reason was received
    consumer,           \* the get_streaming_results generator of each query id
    streaming_results,  \* the pipeline attribute _streaming_results
    event_cache,        \* sql_question, sql_pairs, instructions: the cache entry of one id
    event_task,         \* the position of the background task of that id
    http_response,      \* the answer of the last GET for that id
    recommend_cache,    \* QuestionRecommendation: the cache entry of one event id
    recommend,          \* the recommend background task of that event
    validation_tasks,   \* the _validate_question coroutines of the current round
    builder,            \* a ServiceContainerBuilder and the calls made on it
    ask_stream,         \* the last call of get_ask_streaming_result for the query id
    sql_answer_results, \* SqlAnswerService: the cache entry of each query id
    sql_answer,         \* the sql_answer background task of each query id
    answer_stream,      \* the last call of get_sql_answer_streaming_result
    prepare_semantics_statuses, \* SemanticsPreparationService: the entry of one mdl_hash
    preparations,               \* the prepare_semantics tasks submitted for that hash
    submitted                   \* history: the tasks in the order of their POST

askVars == <<cfg, req, ask_results, task, stop_requested>>

chartVars == <<chart_results, chart, chart_adjustment_results, chart_adjustment>>

feedbackVars == <<feedback_cfg, ask_feedback_results, ask_feedback>>

streamVars == <<user_queues, put_tasks, received, finish_seen, consumer, streaming_results>>

eventVars == <<event_cache, event_task, http_response>>

recommendVars == <<recommend_cache, recommend, validation_tasks>>

builderVars == <<builder>>

askStreamVars == <<ask_stream>>

answerVars == <<sql_answer_results, sql_answer, answer_stream>>

prepVars == <<prepare_semantics_statuses, preparations, submitted>>

vars == <<askVars, chartVars, feedbackVars, streamVars, eventVars, recommendVars,
          builderVars, askStreamVars, answerVars, prepVars>>

\* What the steps of one service leave alone: the state of the others.
notAsk == <<chartVars, feedbackVars, streamVars, eventVars, recommendVars, builderVars,
            askStreamVars, answerVars, prepVars>>

notChart == <<askVars, feedbackVars, streamVars, eventVars, recommendVars, builderVars,
              askStreamVars, answerVars, prepVars>>

notFeedback == <<askVars, chartVars, streamVars, eventVars, recommendVars, builderVars,
                 askStreamVars, answerVars, prepVars>>

notStream == <<askVars, chartVars, feedbackVars, eventVars, recommendVars, builderVars,
               askStreamVars, answerVars, prepVars>>

notEvent == <<askVars, chartVars, feedbackVars, streamVars, recommendVars, builderVars,
              askStreamVars, answerVars, prepVars>>

notRecommend == <<askVars, chartVars, feedbackVars, streamVars, eventVars, builderVars,
                  askStreamVars, answerVars, prepVars>>

notBuilder == <<askVars, chartVars, feedbackVars, streamVars, eventVars, recommendVars,
                askStreamVars, answerVars, prepVars>>

notAskStream == <<askVars, chartVars, feedbackVars, streamVars, eventVars,
                  recommendVars, builderVars, answerVars, prepVars>>

notAnswer == <<askVars, chartVars, feedbackVars, streamVars, eventVars, recommendVars,
               builderVars, askStreamVars, prepVars>>

notPrep == <<askVars, chartVars, feedbackVars, streamVars, eventVars, recommendVars,
             builderVars, askStreamVars, answerVars>>

----------------------------------------------------------------------------
(* Job records                                                             *)

\* Python's None, for an invalid_sql (invalid SQL texts are numbered).
NoSql == 0 - 1

NoError == [code |-> None, message |-> None]

AskError(code, message) == [code |-> code, message |-> message]

\* AskResultResponse(status=...) with every other field at its default.
AskResultResponse(status) ==
    [status |-> status,
     type |-> None,
     general_type |-> None,
     retrieved_tables |-> None,
     sql_generation_reasoning |-> None,
     response |-> <<>>,
     invalid_sql |-> NoSql,
     error |-> NoError,
     is_followup |-> FALSE]

\* AskResult(sql=..., type=..., viewId=...)
AskResult(sql, type, viewId) == [sql |-> sql, type |-> type, viewId |-> viewId]

\* The cache entry of a key that was never set.
NoEntry == [present |-> FALSE, age |-> 0, val |-> AskResultResponse(None)]

\* TTLCache.__setitem__: the value is stored and its time to live restarts.
CacheSet(val) == [present |-> TRUE, age |-> 0, val |-> val]

\* TTLCache.get: an entry is readable while its age is below the ttl.
Readable(c) == c.present /\ c.age < TTL

\* Pydantic validation of the record: sql_generation_reasoning is Optional[str],
\* so the dict that _generate_sql_reasoning returns on failure is rejected.
ValidRecord(val) == val.sql_generation_reasoning # "{}"

\* AskService._is_stopped
IsStopped(c) == Readable(c) /\ c.val.status = "stopped"

\* Mutant: _update_status stores the record without validating it.
UpdateStatus_Unchecked(c, val) == CacheSet(val)

\* Mutant: _update_status with a stop guard of its own.
UpdateStatus_Guarded(c, val) ==
    IF IsStopped(c) THEN c ELSE IF ValidRecord(val) THEN CacheSet(val) ELSE c

\* AskService._update_status: stores a new record, or logs and leaves the
\* cache alone when the record cannot be constructed.
UpdateStatus(c, val) == IF ValidRecord(val) THEN CacheSet(val) ELSE c

\* The answer of AskService.get_ask_result for a query id it does not find.
NotFound == [AskResultResponse("failed") EXCEPT
                !.type = "TEXT_TO_SQL",
                !.error = AskError("OTHERS", "query_id is not found")]

\* Mutant: the job store read as a plain dict, which never expires an entry.
get_ask_result_NoExpiry(c) == IF c.present THEN c.val ELSE NotFound

\* AskService.get_ask_result
get_ask_result(c) == IF Readable(c) THEN c.val ELSE NotFound

----------------------------------------------------------------------------
(* Pipeline outcomes                                                       *)

\* Documents of the historical_question pipeline: a statement and a view id.
Documents ==
    {[statement |-> "SELECT 1", viewId |-> "view-1"],
     [statement |-> "SELECT 2", viewId |-> None]}

DocumentLists == UNION {[1..n -> Documents] : n \in 0..MaxDocs}

Intents == {"TEXT_TO_SQL", "GENERAL", "MISLEADING_QUERY", "USER_GUIDE", None}

GeneralIntents == {"GENERAL", "MISLEADING_QUERY", "USER_GUIDE"}

\* An invalid_generation_result of attempt n (0 is the generation itself).
FailedResult(n, type) ==
    [sql |-> n, type |-> type, error |-> IF type = "TIME_OUT" THEN "timeout" ELSE "dry run failed"]

NoFailedResult == [sql |-> NoSql, type |-> None, error |-> None]

FailureTypes == {"TIME_OUT", "DRY_RUN"}

----------------------------------------------------------------------------
(* The ask background task                                                 *)

\* A list attribute of AskContext, which is None until it is assigned.
NoList == [is_none |-> TRUE, items |-> <<>>]

ListOf(items) == [is_none |-> FALSE, items |-> items]

\* What sql_pairs_retrieval and instructions_retrieval yield: documents, or
\* nothing (also the outcome of _retrieve_sql_samples_and_instructions when
\* one of them raises).
SampleLists == {<<>>, <<"sample">>}

InstructionLists == {<<>>, <<"instruction">>}

\* The tuple _check_historical_question returns; hit stands for an api_results
\* that is not None, returned for the call having returned.
CachedResult(hit, api_results, reasoning, sql_samples, instructions) ==
    [returned |-> TRUE, hit |-> hit, api_results |-> api_results,
     sql_generation_reasoning |-> reasoning,
     sql_samples |-> sql_samples, instructions |-> instructions]

NoCachedResult == [CachedResult(FALSE, <<>>, None, <<>>, <<>>) EXCEPT !.returned = FALSE]

InitTask ==
    [pc |-> "none",
     cached_result |-> NoCachedResult,
     context |-> [sql_samples |-> NoList, instructions |-> NoList],
     passed |-> <<>>,
     calls |-> <<>>,
     intent |-> None,
     hist_docs |-> <<>>,
     table_names |-> None,
     sql_generation_reasoning |-> None,
     api_results |-> <<>>,
     failed_result |-> NoFailedResult,
     invalid_sql |-> NoSql,
     error_message |-> None,
     current_retries |-> 0,
     ret |-> [ask_result |-> <<>>, type |-> None, error_type |-> None]]

\* A pair of cache entry and task locals, the result of a code fragment.
St(c, t) == [c |-> c, t |-> t]

Call(t, name) == [t EXCEPT !.calls = Append(@, name), !.pc = name]

\* A pipeline run that is given "context.sql_samples or []" and
\* "context.instructions or []".
CallWith(t, name) ==
    [Call(t, name) EXCEPT
        !.passed = Append(@, [pipeline |-> name,
                              sql_samples |-> t.context.sql_samples.items,
                              instructions |-> t.context.instructions.items])]

Return(t, ask_result, type, error_type) ==
    [t EXCEPT !.pc = "done",
              !.ret = [ask_result |-> ask_result, type |-> type, error_type |-> error_type]]

\* Fields every TEXT_TO_SQL status write of the task passes on.
TextToSql(status, t) ==
    [AskResultResponse(status) EXCEPT
        !.type = "TEXT_TO_SQL",
        !.is_followup = req.histories]


\* Mutant: _format_final_response writes without asking _is_stopped.
FormatFinalResponse_Unguarded(c, t) ==
    IF t.api_results # <<>>
    THEN St(UpdateStatus(c, [TextToSql("finished", t) EXCEPT
                    !.response = t.api_results,
                    !.retrieved_tables = t.table_names,
                    !.sql_generation_reasoning = t.sql_generation_reasoning]),
            Return(t, t.api_results, "TEXT_TO_SQL", ""))
    ELSE St(UpdateStatus(c, [TextToSql("failed", t) EXCEPT
                    !.error = AskError("NO_RELEVANT_SQL",
                                       IF t.error_message # None
                                       THEN t.error_message ELSE "No relevant SQL"),
                    !.retrieved_tables = t.table_names,
                    !.sql_generation_reasoning = t.sql_generation_reasoning,
                    !.invalid_sql = t.invalid_sql]),
            Return(t, <<>>, "TEXT_TO_SQL", "NO_RELEVANT_SQL"))

\* AskService._format_final_response (and _format_response, which delegates)
FormatFinalResponse(c, t) ==
    IF t.api_results # <<>>
    THEN St(IF ~IsStopped(c)
            THEN UpdateStatus(c, [TextToSql("finished", t) EXCEPT
                    !.response = t.api_results,
                    !.retrieved_tables = t.table_names,
                    !.sql_generation_reasoning = t.sql_generation_reasoning])
            ELSE c,
            Return(t, t.api_results, "TEXT_TO_SQL", ""))
    ELSE St(IF ~IsStopped(c)
            THEN UpdateStatus(c, [TextToSql("failed", t) EXCEPT
                    !.error = AskError("NO_RELEVANT_SQL",
                                       IF t.error_message # None
                                       THEN t.error_message ELSE "No relevant SQL"),
                    !.retrieved_tables = t.table_names,
                    !.sql_generation_reasoning = t.sql_generation_reasoning,
                    !.invalid_sql = t.invalid_sql])
            ELSE c,
            Return(t, <<>>, "TEXT_TO_SQL", "NO_RELEVANT_SQL"))

\* AskService._format_cached_response
FormatCachedResponse(c, t) ==
    St(IF ~IsStopped(c)
       THEN UpdateStatus(c, [TextToSql("finished", t) EXCEPT
                !.response = t.api_results,
                !.retrieved_tables = "[]",
                !.sql_generation_reasoning = t.sql_generation_reasoning])
       ELSE c,
       Return(t, t.api_results, "TEXT_TO_SQL", ""))

\* The assistance pipeline and the general_type of a non TEXT_TO_SQL intent.
AssistancePipeline(intent) ==
    CASE intent = "MISLEADING_QUERY" -> "misleading_assistance"
      [] intent = "GENERAL" -> "data_assistance"
      [] intent = "USER_GUIDE" -> "user_guide_assistance"

GeneralType(intent) ==
    CASE intent = "MISLEADING_QUERY" -> "MISLEADING_QUERY"
      [] intent = "GENERAL" -> "DATA_ASSISTANCE"
      [] intent = "USER_GUIDE" -> "USER_GUIDE"

\* AskService._handle_general_query for the three intents ask hands to it:
\* the assistance pipeline is started as a task of its own and the job is
\* recorded as finished.
HandleGeneralQuery(c, t, intent) ==
    St(UpdateStatus(c, [AskResultResponse("finished") EXCEPT
            !.type = "GENERAL",
            !.is_followup = req.histories,
            !.general_type = GeneralType(intent)]),
       [Return(t, <<>>, IF intent = "MISLEADING_QUERY" THEN "MISLEADING_QUERY" ELSE "GENERAL", None)
            EXCEPT !.calls = Append(@, AssistancePipeline(intent))])

\* AskService._classify_intent, up to its await.
ClassifyIntent(t) == CallWith(t, "intent_classification")

\* AskService._handle_cache_hit, up to its first await or its return: the
\* cached result is unpacked into the context.
HandleCacheHit(c, t) ==
    LET t1 == [t EXCEPT
                 !.api_results = t.cached_result.api_results,
                 !.sql_generation_reasoning = t.cached_result.sql_generation_reasoning,
                 !.context = [sql_samples |-> ListOf(t.cached_result.sql_samples),
                              instructions |-> ListOf(t.cached_result.instructions)]] IN
    IF cfg.allow_intent_classification
    THEN St(c, [ClassifyIntent(t1) EXCEPT !.pc = "hit_intent_classification"])
    ELSE FormatCachedResponse(c, t1)

\* AskService._retrieve_database_schemas, up to its await.
RetrieveDatabaseSchemas(c, t) ==
    St(UpdateStatus(c, TextToSql("searching", t)), Call(t, "db_schema_retrieval"))

\* The reasoning text as _generate_sql and the second planning write store
\* it: a string as it is, the empty dict as None.
ReasoningText(r) == IF r = "{}" THEN None ELSE r

\* Mutant: _generate_sql records the status of the retrieval stage.
GenerateSql_SearchingStatus(c, t) ==
    St(UpdateStatus(c, [TextToSql("searching", t) EXCEPT
            !.retrieved_tables = t.table_names,
            !.sql_generation_reasoning = ReasoningText(t.sql_generation_reasoning)]),
       IF cfg.allow_sql_functions_retrieval
       THEN Call(t, "sql_functions_retrieval")
       ELSE CallWith(t, IF req.histories THEN "followup_sql_generation" ELSE "sql_generation"))

\* AskService._generate_sql, up to its first await.
GenerateSql(c, t) ==
    St(UpdateStatus(c, [TextToSql("generating", t) EXCEPT
            !.retrieved_tables = t.table_names,
            !.sql_generation_reasoning = ReasoningText(t.sql_generation_reasoning)]),
       IF cfg.allow_sql_functions_retrieval
       THEN Call(t, "sql_functions_retrieval")
       ELSE CallWith(t, IF req.histories THEN "followup_sql_generation" ELSE "sql_generation"))

\* AskService.ask, step 7 and step 8 up to the next await.
GenerateStep(c, t) ==
    IF ~IsStopped(c) THEN GenerateSql(c, t) ELSE FormatFinalResponse(c, t)

\* Mutant: _generate_sql_reasoning runs the first-question pipeline whatever
\* the histories are.
GenerateSqlReasoning_NoFollowup(c, t) ==
    St(UpdateStatus(c, [TextToSql("planning", t) EXCEPT
            !.retrieved_tables = t.table_names]),
       CallWith(t, "sql_generation_reasoning"))

\* AskService._generate_sql_reasoning, up to its await.
GenerateSqlReasoning(c, t) ==
    St(UpdateStatus(c, [TextToSql("planning", t) EXCEPT
            !.retrieved_tables = t.table_names]),
       CallWith(t, IF req.histories THEN "followup_sql_generation_reasoning"
                                    ELSE "sql_generation_reasoning"))

\* AskService.ask, step 6 up to the next await.
ReasoningStep(c, t) ==
    IF cfg.allow_sql_generation_reasoning /\ ~req.ignore_sql_generation_reasoning
    THEN GenerateSqlReasoning(c, t)
    ELSE GenerateStep(c, t)

\* AskService.ask, the handler of its outer try.
AskExcept(c, t) ==
    St(UpdateStatus(c, [TextToSql("failed", t) EXCEPT
            !.error = AskError("OTHERS", "str(e)")]),
       Return(t, <<>>, "TEXT_TO_SQL", "OTHERS"))

\* Mutant: _correct_sql returns without the copy that follows its loop.
CorrectSqlReturn_NoCopy(c, t) == FormatFinalResponse(c, t)

\* AskService._correct_sql after its loop, and the formatting that follows.
CorrectSqlReturn(c, t) ==
    FormatFinalResponse(c,
        IF t.api_results = <<>> /\ t.failed_result # NoFailedResult
        THEN [t EXCEPT !.invalid_sql = t.failed_result.sql,
                       !.error_message = t.failed_result.error]
        ELSE t)

\* Mutant: the retry loop without the test for TIME_OUT.
CorrectSqlLoop_RetriesTimeout(c, t) ==
    IF t.current_retries < max_sql_correction_retries
    THEN LET t1 == [t EXCEPT !.invalid_sql = t.failed_result.sql,
                             !.error_message = t.failed_result.error] IN
         St(UpdateStatus(c, [TextToSql("correcting", t) EXCEPT
                !.retrieved_tables = t.table_names]),
            Call([t1 EXCEPT !.current_retries = @ + 1], "sql_correction"))
    ELSE CorrectSqlReturn(c, t)

\* Mutant: the retry loop tests current_retries <= max_retries.
CorrectSqlLoop_OffByOne(c, t) ==
    IF t.current_retries <= max_sql_correction_retries
    THEN LET t1 == [t EXCEPT !.invalid_sql = t.failed_result.sql,
                             !.error_message = t.failed_result.error] IN
         IF t.failed_result.type = "TIME_OUT"
         THEN CorrectSqlReturn(c, t1)
         ELSE St(UpdateStatus(c, [TextToSql("correcting", t) EXCEPT
                        !.retrieved_tables = t.table_names]),
                 Call([t1 EXCEPT !.current_retries = @ + 1], "sql_correction"))
    ELSE CorrectSqlReturn(c, t)

\* AskService._correct_sql: the head of one loop iteration, up to the await of
\* the correction pipeline or to the end of the loop.
CorrectSqlLoop(c, t) ==
    IF t.current_retries < max_sql_correction_retries
    THEN LET t1 == [t EXCEPT !.invalid_sql = t.failed_result.sql,
                             !.error_message = t.failed_result.error] IN
         IF t.failed_result.type = "TIME_OUT"
         THEN CorrectSqlReturn(c, t1)
         ELSE St(UpdateStatus(c, [TextToSql("correcting", t) EXCEPT
                        !.retrieved_tables = t.table_names]),
                 Call([t1 EXCEPT !.current_retries = @ + 1], "sql_correction"))
    ELSE CorrectSqlReturn(c, t)


----------------------------------------------------------------------------
(* Actions of the ask job                                                  *)

Apply(s) == ask_results' = s.c /\ task' = s.t

\* Mutant: POST /asks enqueues the task without writing the record first.
PostAsk_EnqueueOnly ==
    /\ task.pc = "none"
    /\ \E h \in BOOLEAN, i \in BOOLEAN :
          req' = [histories |-> h, ignore_sql_generation_reasoning |-> i]
    /\ task' = [task EXCEPT !.pc = "queued"]
    /\ UNCHANGED <<cfg, ask_results, stop_requested, notAsk>>

\* POST /asks: a fresh query id, its record written, the task enqueued.
PostAsk ==
    /\ task.pc = "none"
    /\ \E h \in BOOLEAN, i \in BOOLEAN :
          req' = [histories |-> h, ignore_sql_generation_reasoning |-> i]
    /\ ask_results' = CacheSet(AskResultResponse("understanding"))
    /\ task' = [task EXCEPT !.pc = "queued"]
    /\ UNCHANGED <<cfg, stop_requested, notAsk>>

\* ask, steps 1 and 2 up to the await of the historical_question pipeline.
AskStart ==
    /\ task.pc = "queued"
    /\ Apply(St(IF ~IsStopped(ask_results)
                THEN UpdateStatus(ask_results,
                        [AskResultResponse("understanding") EXCEPT
                            !.is_followup = req.histories])
                ELSE ask_results,
                Call(task, "historical_question")))
    /\ UNCHANGED <<cfg, req, stop_requested, notAsk>>

\* Mutant: _check_historical_question without the [:1] slice.
CheckHistoricalQuestion_AllDocuments(c, t, raised, docs) ==
    IF raised
    THEN St(c, ClassifyIntent([t EXCEPT !.cached_result =
                                  CachedResult(FALSE, <<>>, None, <<>>, <<>>)]))
    ELSE IF docs # <<>>
         THEN LET api_results ==
                      [k \in 1..Len(docs) |->
                          AskResult(docs[k].statement,
                                    IF docs[k].viewId # None THEN "view" ELSE "llm",
                                    docs[k].viewId)] IN
              HandleCacheHit(c,
                [t EXCEPT !.hist_docs = docs,
                          !.cached_result = CachedResult(TRUE, api_results, "", <<>>, <<>>)])
         ELSE St(c, [Call(Call(t, "sql_pairs_retrieval"), "instructions_retrieval")
                        EXCEPT !.pc = "sql_samples_and_instructions"])

\* _check_historical_question after its pipeline returned, and ask up to the
\* next await.
CheckHistoricalQuestion(c, t, raised, docs) ==
    IF raised
    THEN St(c, ClassifyIntent([t EXCEPT !.cached_result =
                                  CachedResult(FALSE, <<>>, None, <<>>, <<>>)]))
    ELSE IF docs # <<>>
         THEN LET api_results ==
                      <<AskResult(docs[1].statement,
                                  IF docs[1].viewId # None THEN "view" ELSE "llm",
                                  docs[1].viewId)>> IN
              HandleCacheHit(c,
                [t EXCEPT !.hist_docs = docs,
                          !.cached_result = CachedResult(TRUE, api_results, "", <<>>, <<>>)])
         ELSE St(c, [Call(Call(t, "sql_pairs_retrieval"), "instructions_retrieval")
                        EXCEPT !.pc = "sql_samples_and_instructions"])

HistoricalQuestionReturn ==
    /\ task.pc = "historical_question"
    /\ \E raised \in BOOLEAN, docs \in DocumentLists :
          /\ raised => docs = <<>>
          /\ Apply(CheckHistoricalQuestion(ask_results, task, raised, docs))
    /\ UNCHANGED <<cfg, req, stop_requested, notAsk>>

\* Mutant: _check_historical_question returns empty lists on a cache miss.
AfterSamplesAndInstructions_Dropped(c, t, sql_samples, instructions) ==
    St(c, ClassifyIntent([t EXCEPT !.cached_result =
                             CachedResult(FALSE, <<>>, None, <<>>, <<>>)]))

\* _retrieve_sql_samples_and_instructions returned (with documents, or with
\* empty lists after an exception): _check_historical_question returns
\* (None, None, sql_samples, instructions) and ask goes on to classify the
\* intent.
AfterSamplesAndInstructions(c, t, sql_samples, instructions) ==
    St(c, ClassifyIntent([t EXCEPT !.cached_result =
                             CachedResult(FALSE, <<>>, None, sql_samples, instructions)]))

SamplesAndInstructionsReturn ==
    /\ task.pc = "sql_samples_and_instructions"
    /\ \E sql_samples \in SampleLists, instructions \in InstructionLists :
          Apply(AfterSamplesAndInstructions(ask_results, task, sql_samples, instructions))
    /\ UNCHANGED <<cfg, req, stop_requested, notAsk>>

\* Mutant: ask without the branch of step 4.
AfterIntent_NoGeneralBranch(c, t, intent) ==
    RetrieveDatabaseSchemas(c, [t EXCEPT !.intent = intent])

\* ask, steps 3 to 5: the classified intent (None when the pipeline raised).
AfterIntent(c, t, intent) ==
    IF intent \in GeneralIntents
    THEN HandleGeneralQuery(c, [t EXCEPT !.intent = intent], intent)
    ELSE RetrieveDatabaseSchemas(c, [t EXCEPT !.intent = intent])

IntentClassificationReturn ==
    /\ task.pc = "intent_classification"
    /\ \E intent \in Intents : Apply(AfterIntent(ask_results, task, intent))
    /\ UNCHANGED <<cfg, req, stop_requested, notAsk>>

\* _handle_cache_hit after the intent classification returned.
AfterHitIntent(c, t, intent) ==
    IF intent \in GeneralIntents
    THEN HandleGeneralQuery(c, [t EXCEPT !.intent = intent], intent)
    ELSE FormatCachedResponse(c, [t EXCEPT !.intent = intent])

HitIntentClassificationReturn ==
    /\ task.pc = "hit_intent_classification"
    /\ \E intent \in Intents : Apply(AfterHitIntent(ask_results, task, intent))
    /\ UNCHANGED <<cfg, req, stop_requested, notAsk>>

\* Mutant: ask goes on to step 6 when no document was retrieved.
AfterSchemaRetrieval_GoesOn(c, t, outcome) ==
    CASE outcome = "documents" ->
            ReasoningStep(c, [t EXCEPT !.table_names = "tables"])
      [] outcome = "empty" ->
            ReasoningStep(IF ~IsStopped(c)
                          THEN UpdateStatus(c, [TextToSql("failed", t) EXCEPT
                                  !.error = AskError("NO_RELEVANT_DATA", "No relevant data")])
                          ELSE c,
                          t)
      [] outcome = "raise" ->
            St(c, Return(t, <<>>, "TEXT_TO_SQL", "NO_RELEVANT_DATA"))

\* _retrieve_database_schemas after its pipeline returned, and ask up to the
\* next await.
AfterSchemaRetrieval(c, t, outcome) ==
    CASE outcome = "documents" ->
            ReasoningStep(c, [t EXCEPT !.table_names = "tables"])
      [] outcome = "empty" ->
            St(IF ~IsStopped(c)
               THEN UpdateStatus(c, [TextToSql("failed", t) EXCEPT
                        !.error = AskError("NO_RELEVANT_DATA", "No relevant data")])
               ELSE c,
               Return(t, <<>>, "TEXT_TO_SQL", "NO_RELEVANT_DATA"))
      [] outcome = "raise" ->
            St(c, Return(t, <<>>, "TEXT_TO_SQL", "NO_RELEVANT_DATA"))

SchemaRetrievalReturn ==
    /\ task.pc = "db_schema_retrieval"
    /\ \E outcome \in {"documents", "empty", "raise"} :
          Apply(AfterSchemaRetrieval(ask_results, task, outcome))
    /\ UNCHANGED <<cfg, req, stop_requested, notAsk>>

\* _generate_sql_reasoning after its pipeline returned, and ask up to the
\* next await.
AfterReasoning(c, t, raised) ==
    IF raised
    THEN GenerateStep(c, [t EXCEPT !.sql_generation_reasoning = "{}"])
    ELSE GenerateStep(UpdateStatus(c, [TextToSql("planning", t) EXCEPT
                            !.retrieved_tables = t.table_names,
                            !.sql_generation_reasoning = "reasoning"]),
                      [t EXCEPT !.sql_generation_reasoning = "reasoning"])

ReasoningReturn ==
    /\ task.pc \in {"sql_generation_reasoning", "followup_sql_generation_reasoning"}
    /\ \E raised \in BOOLEAN : Apply(AfterReasoning(ask_results, task, raised))
    /\ UNCHANGED <<cfg, req, stop_requested, notAsk>>

\* _generate_sql after sql_functions_retrieval returned.
AfterSqlFunctions(c, t, raised) ==
    IF raised
    THEN AskExcept(c, t)
    ELSE St(c, CallWith(t, IF req.histories THEN "followup_sql_generation" ELSE "sql_generation"))

SqlFunctionsReturn ==
    /\ task.pc = "sql_functions_retrieval"
    /\ \E raised \in BOOLEAN : Apply(AfterSqlFunctions(ask_results, task, raised))
    /\ UNCHANGED <<cfg, req, stop_requested, notAsk>>

\* ask, step 7 after _generate_sql returned.
AfterGeneration(c, t, outcome, type) ==
    CASE outcome = "valid" ->
            FormatFinalResponse(c, [t EXCEPT !.api_results = <<AskResult("generated", "llm", None)>>])
      [] outcome = "invalid" ->
            CorrectSqlLoop(c, [t EXCEPT !.failed_result = FailedResult(0, type)])
      [] outcome = "neither" ->
            FormatFinalResponse(c, t)
      [] outcome = "raise" ->
            AskExcept(c, t)

SqlGenerationReturn ==
    /\ task.pc \in {"sql_generation", "followup_sql_generation"}
    /\ \E outcome \in {"valid", "invalid", "neither", "raise"}, type \in FailureTypes :
          /\ outcome # "invalid" => type = "DRY_RUN"
          /\ Apply(AfterGeneration(ask_results, task, outcome, type))
    /\ UNCHANGED <<cfg, req, stop_requested, notAsk>>

\* _correct_sql after one run of the correction pipeline returned.
AfterCorrection(c, t, outcome, type) ==
    CASE outcome = "valid" ->
            CorrectSqlReturn(c, [t EXCEPT !.api_results = <<AskResult("corrected", "llm", None)>>])
      [] outcome = "invalid" ->
            CorrectSqlLoop(c, [t EXCEPT !.failed_result = FailedResult(t.current_retries, type)])
      [] outcome = "neither" ->
            \* failed_result is empty: the next iteration raises on
            \* failed_result["sql"], the end of the loop copies nothing
            IF t.current_retries < max_sql_correction_retries
            THEN FormatFinalResponse(c, [t EXCEPT !.failed_result = NoFailedResult,
                                                  !.error_message = "str(e)"])
            ELSE CorrectSqlReturn(c, [t EXCEPT !.failed_result = NoFailedResult])
      [] outcome = "raise" ->
            FormatFinalResponse(c, [t EXCEPT !.error_message = "str(e)"])

SqlCorrectionReturn ==
    /\ task.pc = "sql_correction"
    /\ \E outcome \in {"valid", "invalid", "neither", "raise"}, type \in FailureTypes :
          /\ outcome # "invalid" => type = "DRY_RUN"
          /\ Apply(AfterCorrection(ask_results, task, outcome, type))
    /\ UNCHANGED <<cfg, req, stop_requested, notAsk>>

\* Mutant: stop_ask leaves the record of a job that has ended.
StopAskRecord_KeepEnded(c) ==
    IF Readable(c) /\ c.val.status \in {"finished", "failed"}
    THEN c
    ELSE CacheSet(AskResultResponse("stopped"))

\* AskService.stop_ask: the assignment to _ask_results[query_id].
StopAskRecord(c) == CacheSet(AskResultResponse("stopped"))

\* AskService.stop_ask, run for the job's query id.
StopAsk ==
    /\ task.pc # "none"
    /\ ask_results' = StopAskRecord(ask_results)
    /\ stop_requested' = TRUE
    /\ UNCHANGED <<cfg, req, task, notAsk>>

\* The cache timer advances; an entry at the ttl has expired.
Tick ==
    /\ ask_results.present
    /\ ask_results.age < TTL
    /\ ask_results' = [ask_results EXCEPT !.age = @ + 1]
    /\ UNCHANGED <<cfg, req, task, stop_requested, notAsk>>

\* The ask service after construction, for each setting of its flags.
InitAsk ==
    /\ cfg \in [allow_intent_classification : BOOLEAN,
                allow_sql_generation_reasoning : BOOLEAN,
                allow_sql_functions_retrieval : BOOLEAN]
    /\ req = [histories |-> FALSE, ignore_sql_generation_reasoning |-> FALSE]
    /\ ask_results = NoEntry
    /\ task = InitTask
    /\ stop_requested = FALSE

\* The ask service with the flags at their defaults.
IdleAsk ==
    /\ cfg = [allow_intent_classification |-> TRUE,
              allow_sql_generation_reasoning |-> TRUE,
              allow_sql_functions_retrieval |-> TRUE]
    /\ req = [histories |-> FALSE, ignore_sql_generation_reasoning |-> FALSE]
    /\ ask_results = NoEntry
    /\ task = InitTask
    /\ stop_requested = FALSE

NextAsk ==
    \/ PostAsk
    \/ AskStart
    \/ HistoricalQuestionReturn
    \/ SamplesAndInstructionsReturn
    \/ IntentClassificationReturn
    \/ HitIntentClassificationReturn
    \/ SchemaRetrievalReturn
    \/ ReasoningReturn
    \/ SqlFunctionsReturn
    \/ SqlGenerationReturn
    \/ SqlCorrectionReturn
    \/ StopAsk
    \/ Tick

----------------------------------------------------------------------------
(* The streaming endpoint of the ask job                                   *)

\* The names the model gives to the streaming pipelines of AskService.
StreamingPipelines ==
    {"user_guide_assistance", "data_assistance", "misleading_assistance",
     "followup_sql_generation_reasoning", "sql_generation_reasoning"}

\* Mutant: the planning branch always reads the first-question pipeline.
PipelineName_NoFollowup(c) ==
    IF ~Readable(c) THEN ""
    ELSE IF c.val.type = "GENERAL"
         THEN CASE c.val.general_type = "USER_GUIDE" -> "user_guide_assistance"
                [] c.val.general_type = "DATA_ASSISTANCE" -> "data_assistance"
                [] c.val.general_type = "MISLEADING_QUERY" -> "misleading_assistance"
                [] OTHER -> ""
         ELSE IF c.val.status = "planning"
              THEN "sql_generation_reasoning"
              ELSE ""

\* AskService.get_ask_streaming_result: _pipeline_name, the pipeline whose
\* get_streaming_results is iterated; "" when the generator returns without
\* reading any pipeline (no record, or no branch taken).
PipelineName(c) ==
    IF ~Readable(c) THEN ""
    ELSE IF c.val.type = "GENERAL"
         THEN CASE c.val.general_type = "USER_GUIDE" -> "user_guide_assistance"
                [] c.val.general_type = "DATA_ASSISTANCE" -> "data_assistance"
                [] c.val.general_type = "MISLEADING_QUERY" -> "misleading_assistance"
                [] OTHER -> ""
         ELSE IF c.val.status = "planning"
              THEN IF c.val.is_followup
                   THEN "followup_sql_generation_reasoning"
                   ELSE "sql_generation_reasoning"
              ELSE ""

NoAskStream == [called |-> FALSE, pipeline |-> ""]

\* GET /asks/{query_id}/streaming-result: the generator up to the first
\* get_streaming_results it iterates, or to its return.
GetAskStreamingResult ==
    /\ ask_stream' = [called |-> TRUE, pipeline |-> PipelineName(ask_results)]
    /\ UNCHANGED <<askVars, notAskStream>>

IdleAskStream == ask_stream = NoAskStream

NextAskStreaming == NextAsk \/ GetAskStreamingResult

----------------------------------------------------------------------------
(* The chart and chart adjustment jobs                                     *)

\* ChartResultResponse / ChartAdjustmentResultResponse with default fields.
ChartResultResponse(status) == [status |-> status, response |-> None, error |-> NoError]

ChartError(code, message) == [code |-> code, message |-> message]

NoChartEntry == [present |-> FALSE, age |-> 0, val |-> ChartResultResponse(None)]

\* ChartService._update_status and ChartAdjustmentService._update_status
ChartUpdateStatus(c, val) == CacheSet(val)

\* ChartService._is_stopped and ChartAdjustmentService._is_stopped: defined by
\* both services and called by neither.
ChartIsStopped(c) == Readable(c) /\ c.val.status = "stopped"

InitChartTask == [pc |-> "none", data |-> FALSE, raised |-> FALSE, error_type |-> None]

ChartReturn(t, error_type) == [t EXCEPT !.pc = "done", !.error_type = error_type]

\* The handler of the outer try of chart and of chart_adjustment.
ChartExcept(c, t) ==
    St(ChartUpdateStatus(c, [ChartResultResponse("failed") EXCEPT
            !.error = ChartError("OTHERS", "str(e)")]),
       [ChartReturn(t, "OTHERS") EXCEPT !.raised = TRUE])

\* ChartService._generate_chart, up to its await.
GenerateChart(c, t) ==
    St(ChartUpdateStatus(c, ChartResultResponse("generating")),
       [t EXCEPT !.pc = "chart_generation"])

\* ChartService._fetch_sql_data, up to its await, or through _generate_chart
\* up to its await when the request carries the data.
FetchSqlData(c, t) ==
    IF ~t.data
    THEN St(ChartUpdateStatus(c, ChartResultResponse("fetching")),
            [t EXCEPT !.pc = "sql_executor"])
    ELSE GenerateChart(c, t)

\* _format_chart_result of both services. The results of the generation are
\* "empty" (no chart_schema and no reasoning), a "chart", or "malformed": a
\* result from which ChartResult cannot be built, such as a chart_type outside
\* the Literal; that exception is caught inside _format_chart_result.
FormatChartResult(c, t, results) ==
    CASE results = "empty" ->
            St(ChartUpdateStatus(c, [ChartResultResponse("failed") EXCEPT
                    !.error = ChartError("NO_CHART", "chart generation failed")]),
               ChartReturn(t, "NO_CHART"))
      [] results = "chart" ->
            St(ChartUpdateStatus(c, [ChartResultResponse("finished") EXCEPT
                    !.response = "chart"]),
               ChartReturn(t, ""))
      [] results = "malformed" ->
            St(c, [ChartReturn(t, "OTHERS") EXCEPT !.raised = TRUE])

GenerationResults == {"empty", "chart", "malformed"}

ApplyChart(s) == chart_results' = s.c /\ chart' = s.t

\* POST /charts
PostChart ==
    /\ chart.pc = "none"
    /\ chart_results' = CacheSet(ChartResultResponse("fetching"))
    /\ \E d \in BOOLEAN : chart' = [chart EXCEPT !.pc = "queued", !.data = d]
    /\ UNCHANGED <<chart_adjustment_results, chart_adjustment, notChart>>

\* chart, up to its first await.
ChartStart ==
    /\ chart.pc = "queued"
    /\ ApplyChart(FetchSqlData(chart_results, chart))
    /\ UNCHANGED <<chart_adjustment_results, chart_adjustment, notChart>>

\* chart after the sql_executor pipeline returned.
ChartAfterSqlExecutor(c, t, raised) ==
    IF raised THEN ChartExcept(c, t) ELSE GenerateChart(c, t)

ChartSqlExecutorReturn ==
    /\ chart.pc = "sql_executor"
    /\ \E raised \in BOOLEAN : ApplyChart(ChartAfterSqlExecutor(chart_results, chart, raised))
    /\ UNCHANGED <<chart_adjustment_results, chart_adjustment, notChart>>

\* chart after the chart_generation pipeline returned.
ChartAfterGeneration(c, t, raised, results) ==
    IF raised THEN ChartExcept(c, t) ELSE FormatChartResult(c, t, results)

ChartGenerationReturn ==
    /\ chart.pc = "chart_generation"
    /\ \E raised \in BOOLEAN, results \in GenerationResults :
          ApplyChart(ChartAfterGeneration(chart_results, chart, raised, results))
    /\ UNCHANGED <<chart_adjustment_results, chart_adjustment, notChart>>

\* ChartService.stop_chart
StopChart ==
    /\ chart.pc # "none"
    /\ chart_results' = CacheSet(ChartResultResponse("stopped"))
    /\ UNCHANGED <<chart, chart_adjustment_results, chart_adjustment, notChart>>

ChartTick ==
    /\ chart_results.present
    /\ chart_results.age < TTL
    /\ chart_results' = [chart_results EXCEPT !.age = @ + 1]
    /\ UNCHANGED <<chart, chart_adjustment_results, chart_adjustment, notChart>>

ApplyChartAdjustment(s) == chart_adjustment_results' = s.c /\ chart_adjustment' = s.t

\* POST /chart-adjustments
PostChartAdjustment ==
    /\ chart_adjustment.pc = "none"
    /\ chart_adjustment_results' = CacheSet(ChartResultResponse("fetching"))
    /\ chart_adjustment' = [chart_adjustment EXCEPT !.pc = "queued"]
    /\ UNCHANGED <<chart_results, chart, notChart>>

\* chart_adjustment, steps 1 and 2 up to the await of sql_executor.
ChartAdjustmentStart ==
    /\ chart_adjustment.pc = "queued"
    /\ ApplyChartAdjustment(
          St(ChartUpdateStatus(chart_adjustment_results, ChartResultResponse("fetching")),
             [chart_adjustment EXCEPT !.pc = "sql_executor"]))
    /\ UNCHANGED <<chart_results, chart, notChart>>

\* chart_adjustment, steps 3 and 4 up to the await of the adjustment pipeline.
AdjustmentAfterSqlExecutor(c, t, raised) ==
    IF raised
    THEN ChartExcept(c, t)
    ELSE St(ChartUpdateStatus(c, ChartResultResponse("generating")),
            [t EXCEPT !.pc = "chart_adjustment"])

ChartAdjustmentSqlExecutorReturn ==
    /\ chart_adjustment.pc = "sql_executor"
    /\ \E raised \in BOOLEAN :
          ApplyChartAdjustment(
              AdjustmentAfterSqlExecutor(chart_adjustment_results, chart_adjustment, raised))
    /\ UNCHANGED <<chart_results, chart, notChart>>

\* chart_adjustment, step 5.
AdjustmentAfterGeneration(c, t, raised, results) ==
    IF raised THEN ChartExcept(c, t) ELSE FormatChartResult(c, t, results)

ChartAdjustmentGenerationReturn ==
    /\ chart_adjustment.pc = "chart_adjustment"
    /\ \E raised \in BOOLEAN, results \in GenerationResults :
          ApplyChartAdjustment(
              AdjustmentAfterGeneration(chart_adjustment_results, chart_adjustment,
                                        raised, results))
    /\ UNCHANGED <<chart_results, chart, notChart>>

\* ChartAdjustmentService.stop_chart_adjustment
StopChartAdjustment ==
    /\ chart_adjustment.pc # "none"
    /\ chart_adjustment_results' = CacheSet(ChartResultResponse("stopped"))
    /\ UNCHANGED <<chart_adjustment, chart_results, chart, notChart>>

ChartAdjustmentTick ==
    /\ chart_adjustment_results.present
    /\ chart_adjustment_results.age < TTL
    /\ chart_adjustment_results' = [chart_adjustment_results EXCEPT !.age = @ + 1]
    /\ UNCHANGED <<chart_adjustment, chart_results, chart, notChart>>

InitChart ==
    /\ chart_results = NoChartEntry
    /\ chart = InitChartTask
    /\ chart_adjustment_results = NoChartEntry
    /\ chart_adjustment = InitChartTask

NextChart ==
    \/ PostChart
    \/ ChartStart
    \/ ChartSqlExecutorReturn
    \/ ChartGenerationReturn
    \/ StopChart
    \/ ChartTick
    \/ PostChartAdjustment
    \/ ChartAdjustmentStart
    \/ ChartAdjustmentSqlExecutorReturn
    \/ ChartAdjustmentGenerationReturn
    \/ StopChartAdjustment
    \/ ChartAdjustmentTick

----------------------------------------------------------------------------
(* The ask feedback job                                                    *)

\* AskFeedbackResultResponse with default fields.
AskFeedbackResultResponse(status) ==
    [status |-> status, response |-> <<>>, invalid_sql |-> NoSql, error |-> NoError]

NoFeedbackEntry == [present |-> FALSE, age |-> 0, val |-> AskFeedbackResultResponse(None)]

\* AskFeedbackService._update_status
FeedbackUpdateStatus(c, val) == CacheSet(val)

\* AskFeedbackService._is_stopped
FeedbackIsStopped(c) == Readable(c) /\ c.val.status = "stopped"

InitFeedbackTask ==
    [pc |-> "none", api_results |-> <<>>, invalid_sql |-> NoSql,
     error_message |-> None, error_type |-> None]

FeedbackReturn(t, error_type) == [t EXCEPT !.pc = "done", !.error_type = error_type]

\* ask_feedback, the handler of its outer try.
FeedbackExcept(c, t) ==
    St(FeedbackUpdateStatus(c, [AskFeedbackResultResponse("failed") EXCEPT
            !.error = AskError("OTHERS", "str(e)")]),
       FeedbackReturn(t, "OTHERS"))

\* ask_feedback, step 6.
FeedbackHandleResults(c, t) ==
    IF t.api_results # <<>>
    THEN St(IF ~FeedbackIsStopped(c)
            THEN FeedbackUpdateStatus(c, [AskFeedbackResultResponse("finished") EXCEPT
                    !.response = t.api_results])
            ELSE c,
            FeedbackReturn(t, ""))
    ELSE St(IF ~FeedbackIsStopped(c)
            THEN FeedbackUpdateStatus(c, [AskFeedbackResultResponse("failed") EXCEPT
                    !.error = AskError("NO_RELEVANT_SQL",
                                       IF t.error_message # None
                                       THEN t.error_message ELSE "No relevant SQL"),
                    !.invalid_sql = t.invalid_sql])
            ELSE c,
            FeedbackReturn(t, "NO_RELEVANT_SQL"))

\* ask_feedback, step 4 up to the await of the regeneration pipeline.
FeedbackGenerate(c, t) ==
    IF ~FeedbackIsStopped(c)
    THEN St(FeedbackUpdateStatus(c, AskFeedbackResultResponse("generating")),
            [t EXCEPT !.pc = "sql_regeneration"])
    ELSE St(c, FeedbackReturn(t, ""))

\* ask_feedback, step 1 up to the await of the three retrievals.
FeedbackSearch(c, t) ==
    IF ~FeedbackIsStopped(c)
    THEN St(FeedbackUpdateStatus(c, AskFeedbackResultResponse("searching")),
            [t EXCEPT !.pc = "retrieval"])
    ELSE FeedbackGenerate(c, t)

ApplyFeedback(s) == ask_feedback_results' = s.c /\ ask_feedback' = s.t

\* POST /ask-feedbacks
PostAskFeedback ==
    /\ ask_feedback.pc = "none"
    /\ ask_feedback_results' = CacheSet(AskFeedbackResultResponse("searching"))
    /\ ask_feedback' = [ask_feedback EXCEPT !.pc = "queued"]
    /\ UNCHANGED <<feedback_cfg, notFeedback>>

AskFeedbackStart ==
    /\ ask_feedback.pc = "queued"
    /\ ApplyFeedback(FeedbackSearch(ask_feedback_results, ask_feedback))
    /\ UNCHANGED <<feedback_cfg, notFeedback>>

\* ask_feedback after _retrieve_context_data returned: _get_sql_functions up
\* to its await, or on to step 4.
FeedbackAfterRetrieval(c, t, raised) ==
    IF raised
    THEN FeedbackExcept(c, t)
    ELSE IF feedback_cfg.allow_sql_functions_retrieval
         THEN St(c, [t EXCEPT !.pc = "sql_functions_retrieval"])
         ELSE FeedbackGenerate(c, t)

FeedbackRetrievalReturn ==
    /\ ask_feedback.pc = "retrieval"
    /\ \E raised \in BOOLEAN :
          ApplyFeedback(FeedbackAfterRetrieval(ask_feedback_results, ask_feedback, raised))
    /\ UNCHANGED <<feedback_cfg, notFeedback>>

\* _get_sql_functions returned (an exception of its pipeline yields []).
FeedbackSqlFunctionsReturn ==
    /\ ask_feedback.pc = "sql_functions_retrieval"
    /\ ApplyFeedback(FeedbackGenerate(ask_feedback_results, ask_feedback))
    /\ UNCHANGED <<feedback_cfg, notFeedback>>

\* ask_feedback, step 5 after the regeneration pipeline returned.
FeedbackAfterRegeneration(c, t, outcome, type) ==
    CASE outcome = "raise" -> FeedbackExcept(c, t)
      [] outcome = "valid" ->
            FeedbackHandleResults(c, [t EXCEPT !.api_results = <<AskResult("regenerated", "llm", None)>>])
      [] outcome = "neither" -> FeedbackHandleResults(c, t)
      [] outcome = "invalid" ->
            IF type # "TIME_OUT"
            THEN St(FeedbackUpdateStatus(c, AskFeedbackResultResponse("correcting")),
                    [t EXCEPT !.pc = "sql_correction"])
            ELSE FeedbackHandleResults(c,
                    [t EXCEPT !.invalid_sql = FailedResult(0, type).sql,
                              !.error_message = FailedResult(0, type).error])

FeedbackRegenerationReturn ==
    /\ ask_feedback.pc = "sql_regeneration"
    /\ \E outcome \in {"valid", "invalid", "neither", "raise"}, type \in FailureTypes :
          /\ outcome # "invalid" => type = "DRY_RUN"
          /\ ApplyFeedback(FeedbackAfterRegeneration(ask_feedback_results, ask_feedback,
                                                     outcome, type))
    /\ UNCHANGED <<feedback_cfg, notFeedback>>

\* ask_feedback after the one run of the correction pipeline returned.
FeedbackAfterCorrection(c, t, outcome, type) ==
    CASE outcome = "raise" -> FeedbackExcept(c, t)
      [] outcome = "valid" ->
            FeedbackHandleResults(c, [t EXCEPT !.api_results = <<AskResult("corrected", "llm", None)>>])
      [] outcome = "neither" -> FeedbackHandleResults(c, t)
      [] outcome = "invalid" ->
            FeedbackHandleResults(c,
                [t EXCEPT !.invalid_sql = FailedResult(1, type).sql,
                          !.error_message = FailedResult(1, type).error])

FeedbackCorrectionReturn ==
    /\ ask_feedback.pc = "sql_correction"
    /\ \E outcome \in {"valid", "invalid", "neither", "raise"}, type \in FailureTypes :
          /\ outcome # "invalid" => type = "DRY_RUN"
          /\ ApplyFeedback(FeedbackAfterCorrection(ask_feedback_results, ask_feedback,
                                                   outcome, type))
    /\ UNCHANGED <<feedback_cfg, notFeedback>>

\* AskFeedbackService.stop_ask_feedback
StopAskFeedback ==
    /\ ask_feedback.pc # "none"
    /\ ask_feedback_results' = CacheSet(AskFeedbackResultResponse("stopped"))
    /\ UNCHANGED <<feedback_cfg, ask_feedback, notFeedback>>

FeedbackTick ==
    /\ ask_feedback_results.present
    /\ ask_feedback_results.age < TTL
    /\ ask_feedback_results' = [ask_feedback_results EXCEPT !.age = @ + 1]
    /\ UNCHANGED <<feedback_cfg, ask_feedback, notFeedback>>

InitFeedback ==
    /\ feedback_cfg \in [allow_sql_functions_retrieval : BOOLEAN]
    /\ ask_feedback_results = NoFeedbackEntry
    /\ ask_feedback = InitFeedbackTask

\* The ask feedback service with the flag at its default.
IdleFeedback ==
    /\ feedback_cfg = [allow_sql_functions_retrieval |-> TRUE]
    /\ ask_feedback_results = NoFeedbackEntry
    /\ ask_feedback = InitFeedbackTask

NextFeedback ==
    \/ PostAskFeedback
    \/ AskFeedbackStart
    \/ FeedbackRetrievalReturn
    \/ FeedbackSqlFunctionsReturn
    \/ FeedbackRegenerationReturn
    \/ FeedbackCorrectionReturn
    \/ StopAskFeedback
    \/ FeedbackTick

----------------------------------------------------------------------------
(* Streaming: the queue per query id of a generation pipeline              *)
(* (DataAssistance, MisleadingAssistance, UserGuideAssistance, SQLAnswer). *)

QueryIds == {1, 2}

\* The end-of-stream item _streaming_callback puts after the last chunk.
DONE == "<DONE>"

\* chunk.content: text of the model, which may be empty and may be any text.
Contents == {"", "a", "b", DONE}

\* An asyncio.Queue object held in _user_queues; gen tells apart the objects
\* that were successively stored under one query id.
NoQueue == [exists |-> FALSE, gen |-> 0, items |-> <<>>]

NewQueue(q) == [exists |-> TRUE, gen |-> q.gen + 1, items |-> <<>>]

\* "if query_id not in self._user_queues: self._user_queues[query_id] = Queue()"
EnsureQueue(q) == IF q.exists THEN q ELSE NewQueue(q)

InitConsumer == [pc |-> "none", waited |-> 0, yielded |-> <<>>, ended_by |-> None]

\* _streaming_callback: one task per put, bound to the queue object of the
\* query id at the time of the call.
StreamingCallback(id, content, finish) ==
    /\ ~finish_seen[id]
    /\ Len(received[1]) + Len(received[2]) < MaxChunks
    /\ LET q == EnsureQueue(user_queues[id]) IN
       /\ user_queues' = [user_queues EXCEPT ![id] = q]
       /\ put_tasks' = put_tasks
                        \o <<[id |-> id, gen |-> q.gen, item |-> content]>>
                        \o (IF finish THEN <<[id |-> id, gen |-> q.gen, item |-> DONE]>>
                                      ELSE <<>>)
    /\ received' = [received EXCEPT ![id] = Append(@, content)]
    /\ finish_seen' = [finish_seen EXCEPT ![id] = finish]
    /\ UNCHANGED <<consumer, streaming_results, notStream>>

\* The event loop runs the oldest put() task: the queue is unbounded, so the
\* put completes at once. A task bound to a queue object that is no longer in
\* _user_queues puts into that object, which nobody reads.
PutTask ==
    /\ put_tasks # <<>>
    /\ LET p == Head(put_tasks) IN
       user_queues' =
           IF user_queues[p.id].exists /\ user_queues[p.id].gen = p.gen
           THEN [user_queues EXCEPT ![p.id].items = Append(@, p.item)]
           ELSE user_queues
    /\ put_tasks' = Tail(put_tasks)
    /\ UNCHANGED <<received, finish_seen, consumer, streaming_results, notStream>>

\* get_streaming_results up to its first await.
GetStreamingResults(id) ==
    /\ consumer[id].pc = "none"
    /\ user_queues' = [user_queues EXCEPT ![id] = EnsureQueue(@)]
    /\ consumer' = [consumer EXCEPT ![id].pc = "waiting"]
    /\ UNCHANGED <<put_tasks, received, finish_seen, streaming_results, notStream>>

\* Mutant: the loop body tests and yields what _streaming_results held before
\* the assignment of this iteration.
AfterGet_StaleAttribute(c, item) ==
    IF streaming_results = DONE
    THEN [c EXCEPT !.pc = "done", !.ended_by = "marker", !.waited = 0]
    ELSE IF streaming_results # ""
         THEN [c EXCEPT !.pc = "yielded", !.yielded = Append(@, streaming_results),
                        !.waited = 0]
         ELSE [c EXCEPT !.waited = 0]

\* wait_for returned an item, which is assigned to _streaming_results: the
\* body of the loop up to the break, the yield or the next wait_for. Nothing
\* is awaited between the assignment and the yield, so what is tested and
\* yielded is the item.
AfterGet(c, item) ==
    IF item = DONE
    THEN [c EXCEPT !.pc = "done", !.ended_by = "marker", !.waited = 0]
    ELSE IF item # ""
         THEN [c EXCEPT !.pc = "yielded", !.yielded = Append(@, item), !.waited = 0]
         ELSE [c EXCEPT !.waited = 0]

QueueGet(id) ==
    /\ consumer[id].pc = "waiting"
    /\ user_queues[id].items # <<>>
    /\ LET item == Head(user_queues[id].items) IN
       /\ streaming_results' = item
       /\ consumer' = [consumer EXCEPT ![id] = AfterGet(@, item)]
       /\ user_queues' =
             IF item = DONE
             THEN [user_queues EXCEPT ![id].exists = FALSE, ![id].items = <<>>]
             ELSE [user_queues EXCEPT ![id].items = Tail(@)]
    /\ UNCHANGED <<put_tasks, received, finish_seen, notStream>>

\* The caller asks for the next chunk: the generator resumes after its yield,
\* clears _streaming_results and waits again.
ResumeAfterYield(id) ==
    /\ consumer[id].pc = "yielded"
    /\ streaming_results' = ""
    /\ consumer' = [consumer EXCEPT ![id].pc = "waiting"]
    /\ UNCHANGED <<user_queues, put_tasks, received, finish_seen, notStream>>

\* Time passes while the generator waits on an empty queue.
StreamTick(id) ==
    /\ consumer[id].pc = "waiting"
    /\ user_queues[id].items = <<>>
    /\ consumer[id].waited < StreamTimeout
    /\ consumer' = [consumer EXCEPT ![id].waited = @ + 1]
    /\ UNCHANGED <<user_queues, put_tasks, received, finish_seen, streaming_results, notStream>>

\* Mutant: the handler of the timeout goes round the loop again.
AfterTimeout_Continue(c) == [c EXCEPT !.waited = 0]

\* wait_for timed out: "except TimeoutError: break".
AfterTimeout(c) == [c EXCEPT !.pc = "done", !.ended_by = "timeout"]

WaitForTimeout(id) ==
    /\ consumer[id].pc = "waiting"
    /\ user_queues[id].items = <<>>
    /\ consumer[id].waited = StreamTimeout
    /\ consumer' = [consumer EXCEPT ![id] = AfterTimeout(@)]
    /\ UNCHANGED <<user_queues, put_tasks, received, finish_seen, streaming_results, notStream>>

InitStream ==
    /\ user_queues = [id \in QueryIds |-> NoQueue]
    /\ put_tasks = <<>>
    /\ received = [id \in QueryIds |-> <<>>]
    /\ finish_seen = [id \in QueryIds |-> FALSE]
    /\ consumer = [id \in QueryIds |-> InitConsumer]
    /\ streaming_results = ""

NextStream ==
    \/ \E id \in QueryIds, content \in Contents, finish \in BOOLEAN :
          StreamingCallback(id, content, finish)
    \/ PutTask
    \/ \E id \in QueryIds : GetStreamingResults(id)
    \/ \E id \in QueryIds : QueueGet(id)
    \/ \E id \in QueryIds : ResumeAfterYield(id)
    \/ \E id \in QueryIds : StreamTick(id)
    \/ \E id \in QueryIds : WaitForTimeout(id)

\* The event loop runs every ready task, the caller keeps asking for the
\* next chunk, and time passes.
FairStream ==
    /\ WF_vars(PutTask)
    /\ \A id \in QueryIds :
          /\ WF_vars(QueueGet(id))
          /\ WF_vars(ResumeAfterYield(id))
          /\ WF_vars(StreamTick(id))
          /\ WF_vars(WaitForTimeout(id))

----------------------------------------------------------------------------
(* The result endpoints of sql_question, sql_pairs and instructions        *)

EventServices == {"sql_question", "sql_pairs", "instructions"}

\* The record the POST (or DELETE) router stores before it enqueues the task.
FirstStatus(svc, op) ==
    IF svc = "sql_question" THEN "generating"
    ELSE IF op = "delete" THEN "deleting" ELSE "indexing"

\* The record the background task stores when it ends.
LastStatus(svc, ok) ==
    IF ~ok THEN "failed"
    ELSE IF svc = "sql_question" THEN "succeeded" ELSE "finished"

NoEvent == [present |-> FALSE, age |-> 0, status |-> None]

EventSet(status) == [present |-> TRUE, age |-> 0, status |-> status]

\* SqlQuestionService.get_sql_question_result, SqlPairsService.__getitem__ and
\* InstructionsService.__getitem__: cache.get, and a failed record built in
\* place of a missing entry. None of them raises.
ServiceGet(c) ==
    IF Readable(c)
    THEN [raised |-> None, status |-> c.status, error |-> NoError]
    ELSE [raised |-> None, status |-> "failed", error |-> AskError("OTHERS", "id is not found")]

\* The GET routers: 404 on KeyError, 500 on another exception, else the record.
RouterGet(r) ==
    IF r.raised = "KeyError" THEN [code |-> 404, status |-> None, error |-> NoError]
    ELSE IF r.raised # None THEN [code |-> 500, status |-> None, error |-> NoError]
    ELSE [code |-> 200, status |-> r.status, error |-> r.error]

EventPost(svc, op) ==
    /\ event_task[svc] = "none"
    /\ op = "delete" => svc # "sql_question"
    /\ event_cache' = [event_cache EXCEPT ![svc] = EventSet(FirstStatus(svc, op))]
    /\ event_task' = [event_task EXCEPT ![svc] = "running"]
    /\ UNCHANGED <<http_response, notEvent>>

EventTaskEnd(svc, ok) ==
    /\ event_task[svc] = "running"
    /\ event_cache' = [event_cache EXCEPT ![svc] = EventSet(LastStatus(svc, ok))]
    /\ event_task' = [event_task EXCEPT ![svc] = "done"]
    /\ UNCHANGED <<http_response, notEvent>>

EventTick(svc) ==
    /\ event_cache[svc].present
    /\ event_cache[svc].age < TTL
    /\ event_cache' = [event_cache EXCEPT ![svc].age = @ + 1]
    /\ UNCHANGED <<event_task, http_response, notEvent>>

\* GET /sql-questions/{id}, /sql-pairs/{id}, /instructions/{id}; found keeps
\* whether the id had a record when the request was served.
EventGet(svc) ==
    /\ http_response' = [svc |-> svc, found |-> Readable(event_cache[svc]),
                         answer |-> RouterGet(ServiceGet(event_cache[svc]))]
    /\ UNCHANGED <<event_cache, event_task, notEvent>>

InitEvent ==
    /\ event_cache = [svc \in EventServices |-> NoEvent]
    /\ event_task = [svc \in EventServices |-> "none"]
    /\ http_response = [svc |-> None, found |-> FALSE,
                        answer |-> [code |-> 0, status |-> None, error |-> NoError]]

NextEvent ==
    \/ \E svc \in EventServices, op \in {"post", "delete"} : EventPost(svc, op)
    \/ \E svc \in EventServices, ok \in BOOLEAN : EventTaskEnd(svc, ok)
    \/ \E svc \in EventServices : EventTick(svc)
    \/ \E svc \in EventServices : EventGet(svc)

----------------------------------------------------------------------------
(* Question recommendation: one event, its two rounds of validation tasks  *)

\* The categories the question_recommendation pipeline labels its candidate
\* questions with.
Categories == {"x", "y"}

\* The values of max_questions and max_categories of a request.
MaxQuestionsChoices == 1..2

MaxCategoriesChoices == 1..2

\* Every list of candidates (given by their categories) the pipeline returns.
CandidateLists == UNION {[1..n -> Categories] : n \in 0..MaxCandidates}

\* response["questions"]: a dict from category to the list of its questions,
\* kept as the presence of the key and the length of the list.
NoQuestions == [c \in Categories |-> [present |-> FALSE, n |-> 0]]

\* QuestionRecommendation.Event(event_id=...) with the given fields.
RecommendEvent(status, questions, code) ==
    [status |-> status, questions |-> questions, error |-> code]

NoRecommendEntry ==
    [present |-> FALSE, age |-> 0, val |-> RecommendEvent(None, NoQuestions, None)]

\* QuestionRecommendation._handle_exception: a new failed event replaces the
\* stored one.
HandleException(code) == CacheSet(RecommendEvent("failed", NoQuestions, code))

InitRecommendTask ==
    [pc |-> "none", max_questions |-> 1, max_categories |-> 1, regenerate |-> FALSE,
     round |-> 0, round_max_categories |-> 0, allow_sql_functions_retrieval |-> TRUE]

LenQuestions(questions) == Cardinality({c \in Categories : questions[c].present})

\* Mutant: the partial update without the test for a full question dictionary.
PartialUpdate_AnyCategory(questions, category, max_questions, max_categories) ==
    LET q1 == [questions EXCEPT ![category].present = TRUE] IN
    IF q1[category].n >= max_questions
    THEN q1
    ELSE [q1 EXCEPT ![category].n = @ + 1]

\* _validate_question, the partial update of the resource: nothing is awaited
\* between the read of the dictionary and the append.
PartialUpdate(questions, category, max_questions, max_categories) ==
    IF ~questions[category].present /\ LenQuestions(questions) >= max_categories
    THEN questions
    ELSE LET q1 == [questions EXCEPT ![category].present = TRUE] IN
         IF q1[category].n >= max_questions
         THEN q1
         ELSE [q1 EXCEPT ![category].n = @ + 1]

\* recommend, the return after its try statement.
RecommendEnd(c, t) == St(c, [t EXCEPT !.pc = "done"])

\* QuestionRecommendation._recommend, up to the await of the pipeline.
Recommend(c, t, round, max_categories) ==
    St(c, [t EXCEPT !.pc = "question_recommendation", !.round = round,
                    !.round_max_categories = max_categories])

\* The categories recommend asks to regenerate: those with fewer questions
\* than max_questions.
CategoriesToRegenerate(questions, max_questions) ==
    {c \in Categories : questions[c].present /\ questions[c].n < max_questions}

\* recommend after a call of _recommend returned.
AfterRound(c, t) ==
    IF ~Readable(c)
    THEN RecommendEnd(HandleException("OTHERS"), t)
    ELSE IF t.round = 1
         THEN LET categories == CategoriesToRegenerate(c.val.questions, t.max_questions) IN
              IF categories # {} /\ t.regenerate
              THEN Recommend([c EXCEPT !.val.status = "generating"], t, 2,
                             Cardinality(categories))
              ELSE RecommendEnd([c EXCEPT !.val.status = "finished"], t)
         ELSE RecommendEnd([c EXCEPT !.val.status = "finished"], t)

ApplyRecommend(s) == recommend_cache' = s.c /\ recommend' = s.t

\* POST /question-recommendations
RecommendPost ==
    /\ recommend.pc = "none"
    /\ recommend_cache' = CacheSet(RecommendEvent("generating", NoQuestions, None))
    /\ \E mq \in MaxQuestionsChoices, mc \in MaxCategoriesChoices, r \in BOOLEAN :
          recommend' = [recommend EXCEPT !.pc = "queued", !.max_questions = mq,
                                         !.max_categories = mc, !.regenerate = r]
    /\ UNCHANGED <<validation_tasks, notRecommend>>

\* recommend, up to the await of db_schema_retrieval.
RecommendStart ==
    /\ recommend.pc = "queued"
    /\ \E mdl \in {"ok", "not json", "no models"} :
          ApplyRecommend(
              CASE mdl = "ok" -> St(recommend_cache,
                                    [recommend EXCEPT !.pc = "db_schema_retrieval"])
                [] mdl = "not json" ->
                      RecommendEnd(HandleException("MDL_PARSE_ERROR"), recommend)
                [] mdl = "no models" ->
                      RecommendEnd(HandleException("OTHERS"), recommend))
    /\ UNCHANGED <<validation_tasks, notRecommend>>

RecommendSchemaRetrievalReturn ==
    /\ recommend.pc = "db_schema_retrieval"
    /\ \E raised \in BOOLEAN :
          ApplyRecommend(IF raised
                         THEN RecommendEnd(HandleException("OTHERS"), recommend)
                         ELSE Recommend(recommend_cache, recommend, 1,
                                        recommend.max_categories))
    /\ UNCHANGED <<validation_tasks, notRecommend>>

\* _recommend after the pipeline returned: one validation task per candidate,
\* all of them gathered.
QuestionRecommendationReturn ==
    /\ recommend.pc = "question_recommendation"
    /\ \E raised \in BOOLEAN, questions \in CandidateLists :
          /\ raised => questions = <<>>
          /\ IF raised
             THEN /\ ApplyRecommend(RecommendEnd(HandleException("OTHERS"), recommend))
                  /\ UNCHANGED validation_tasks
             ELSE IF questions = <<>>
                  THEN /\ ApplyRecommend(AfterRound(recommend_cache, recommend))
                       /\ UNCHANGED validation_tasks
                  ELSE /\ validation_tasks' =
                             [i \in 1..Len(questions) |->
                                 [category |-> questions[i], pc |-> "retrieval"]]
                       /\ recommend' = [recommend EXCEPT !.pc = "gather"]
                       /\ UNCHANGED recommend_cache
    /\ UNCHANGED notRecommend

\* _validate_question after the three gathered retrievals returned.
ValidationRetrievalReturn(i) ==
    /\ i \in 1..Len(validation_tasks)
    /\ validation_tasks[i].pc = "retrieval"
    /\ \E raised \in BOOLEAN :
          validation_tasks' = [validation_tasks EXCEPT ![i].pc =
              IF raised THEN "done"
              ELSE IF recommend.allow_sql_functions_retrieval
                   THEN "sql_functions_retrieval" ELSE "sql_generation"]
    /\ UNCHANGED <<recommend_cache, recommend, notRecommend>>

ValidationSqlFunctionsReturn(i) ==
    /\ i \in 1..Len(validation_tasks)
    /\ validation_tasks[i].pc = "sql_functions_retrieval"
    /\ \E raised \in BOOLEAN :
          validation_tasks' = [validation_tasks EXCEPT ![i].pc =
              IF raised THEN "done" ELSE "sql_generation"]
    /\ UNCHANGED <<recommend_cache, recommend, notRecommend>>

\* _validate_question after sql_generation returned, to its end. Reading an
\* expired event from the cache raises KeyError, which ends the coroutine.
ValidationSqlGenerationReturn(i) ==
    /\ i \in 1..Len(validation_tasks)
    /\ validation_tasks[i].pc = "sql_generation"
    /\ \E outcome \in {"valid", "invalid", "raise"} :
          recommend_cache' =
              IF outcome = "valid" /\ Readable(recommend_cache)
              THEN [recommend_cache EXCEPT !.val.questions =
                        PartialUpdate(@, validation_tasks[i].category,
                                      recommend.max_questions,
                                      recommend.round_max_categories)]
              ELSE recommend_cache
    /\ validation_tasks' = [validation_tasks EXCEPT ![i].pc = "done"]
    /\ UNCHANGED <<recommend, notRecommend>>

\* asyncio.gather(*validation_tasks, return_exceptions=True) returns once
\* every coroutine has ended, and recommend goes on.
GatherReturn ==
    /\ recommend.pc = "gather"
    /\ \A i \in 1..Len(validation_tasks) : validation_tasks[i].pc = "done"
    /\ ApplyRecommend(AfterRound(recommend_cache, recommend))
    /\ validation_tasks' = <<>>
    /\ UNCHANGED notRecommend

RecommendTick ==
    /\ recommend_cache.present
    /\ recommend_cache.age < TTL
    /\ recommend_cache' = [recommend_cache EXCEPT !.age = @ + 1]
    /\ UNCHANGED <<recommend, validation_tasks, notRecommend>>

\* The service after construction, with sql functions retrieval allowed.
IdleRecommend ==
    /\ recommend_cache = NoRecommendEntry
    /\ recommend = InitRecommendTask
    /\ validation_tasks = <<>>

\* The service after construction, for each setting of its flag.
InitRecommend ==
    /\ recommend_cache = NoRecommendEntry
    /\ \E a \in BOOLEAN :
          recommend = [InitRecommendTask EXCEPT !.allow_sql_functions_retrieval = a]
    /\ validation_tasks = <<>>

NextRecommend ==
    \/ RecommendPost
    \/ RecommendStart
    \/ RecommendSchemaRetrievalReturn
    \/ QuestionRecommendationReturn
    \/ \E i \in 1..MaxCandidates : ValidationRetrievalReturn(i)
    \/ \E i \in 1..MaxCandidates : ValidationSqlFunctionsReturn(i)
    \/ \E i \in 1..MaxCandidates : ValidationSqlGenerationReturn(i)
    \/ GatherReturn
    \/ RecommendTick

----------------------------------------------------------------------------
(* The service container builder                                           *)

\* ServiceContainerBuilder._validate: required_keys.
required_keys ==
   {"db_schema_retrieval", "sql_pairs_indexing", "instructions_indexing",
    "sql_pairs_retrieval", "instructions_retrieval", "sql_correction",
    "sql_functions_retrieval", "sql_executor", "intent_classification",
    "misleading_assistance", "data_assistance", "user_guide_assistance",
    "historical_question_retrieval", "sql_generation", "sql_generation_reasoning",
    "followup_sql_generation_reasoning", "followup_sql_generation", "semantics_description",
    "db_schema_indexing", "historical_question_indexing", "table_description_indexing",
    "project_meta_indexing", "sql_regeneration", "chart_generation",
    "preprocess_sql_data", "sql_answer", "relationship_recommendation",
    "question_recommendation", "question_recommendation_sql_generation", "sql_question_generation",
    "sql_tables_extraction"}

\* What _create_shared_pipelines constructs from pipe_components, in the
\* order of evaluation.
SharedOrder ==
  <<[kind |-> "pipeline", name |-> "db_schema_retrieval"],
    [kind |-> "pipeline", name |-> "sql_pairs_indexing"],
    [kind |-> "pipeline", name |-> "instructions_indexing"],
    [kind |-> "pipeline", name |-> "sql_pairs_retrieval"],
    [kind |-> "pipeline", name |-> "instructions_retrieval"],
    [kind |-> "pipeline", name |-> "sql_correction"],
    [kind |-> "pipeline", name |-> "sql_functions_retrieval"],
    [kind |-> "pipeline", name |-> "sql_executor"]>>

\* What _create_services constructs, in the order of evaluation: for each
\* service its own pipelines, then the service object.
ServiceOrder ==
  <<[kind |-> "pipeline", name |-> "semantics_description"],
    [kind |-> "service", name |-> "semantics_description"],
    [kind |-> "pipeline", name |-> "db_schema_indexing"],
    [kind |-> "pipeline", name |-> "historical_question_indexing"],
    [kind |-> "pipeline", name |-> "table_description_indexing"],
    [kind |-> "pipeline", name |-> "project_meta_indexing"],
    [kind |-> "service", name |-> "semantics_preparation_service"],
    [kind |-> "pipeline", name |-> "intent_classification"],
    [kind |-> "pipeline", name |-> "misleading_assistance"],
    [kind |-> "pipeline", name |-> "data_assistance"],
    [kind |-> "pipeline", name |-> "user_guide_assistance"],
    [kind |-> "pipeline", name |-> "historical_question_retrieval"],
    [kind |-> "pipeline", name |-> "sql_generation"],
    [kind |-> "pipeline", name |-> "sql_generation_reasoning"],
    [kind |-> "pipeline", name |-> "followup_sql_generation_reasoning"],
    [kind |-> "pipeline", name |-> "followup_sql_generation"],
    [kind |-> "service", name |-> "ask_service"],
    [kind |-> "pipeline", name |-> "sql_regeneration"],
    [kind |-> "service", name |-> "ask_feedback_service"],
    [kind |-> "pipeline", name |-> "chart_generation"],
    [kind |-> "service", name |-> "chart_service"],
    [kind |-> "pipeline", name |-> "chart_adjustment"],
    [kind |-> "service", name |-> "chart_adjustment_service"],
    [kind |-> "pipeline", name |-> "preprocess_sql_data"],
    [kind |-> "pipeline", name |-> "sql_answer"],
    [kind |-> "service", name |-> "sql_answer_service"],
    [kind |-> "pipeline", name |-> "relationship_recommendation"],
    [kind |-> "service", name |-> "relationship_recommendation"],
    [kind |-> "pipeline", name |-> "question_recommendation"],
    [kind |-> "pipeline", name |-> "question_recommendation_sql_generation"],
    [kind |-> "service", name |-> "question_recommendation"],
    [kind |-> "service", name |-> "sql_pairs_service"],
    [kind |-> "pipeline", name |-> "sql_question_generation"],
    [kind |-> "service", name |-> "sql_question_service"],
    [kind |-> "service", name |-> "instructions_service"],
    [kind |-> "pipeline", name |-> "sql_tables_extraction"],
    [kind |-> "service", name |-> "sql_correction_service"]>>

BuildOrder == SharedOrder \o ServiceOrder

\* The pipeline components the build looks up in pipe_components.
UsedKeys == {BuildOrder[i].name : i \in {j \in 1..Len(BuildOrder) : BuildOrder[j].kind = "pipeline"}}

\* The subsets of UsedKeys with at most k elements.
RECURSIVE KeySets(_)
KeySets(k) ==
    IF k = 0
    THEN {{}}
    ELSE LET smaller == KeySets(k - 1) IN
         smaller \cup {m \cup {x} : m \in smaller, x \in UsedKeys}

\* The pipe_components given to a builder: every used component but at most
\* MaxMissing of them, or an empty dict.
ComponentSets == {UsedKeys \ m : m \in KeySets(MaxMissing)} \cup {{}}

SettingsObjects == {"settings_a", "settings_b"}

NoBuilder ==
    [pc |-> "none", settings |-> None, pipe_components |-> {}, constructed |-> <<>>,
     raised |-> None, calls |-> <<>>]

\* A call made while a container is created, with the objects it works on.
BuilderCall(caller, callee, b) ==
    [caller |-> caller, callee |-> callee,
     pipe_components |-> b.pipe_components, settings |-> b.settings]

\* The objects constructed from the steps of BuildOrder from i on, up to the
\* first lookup of a key that pipe_components does not have.
RECURSIVE ConstructFrom(_, _)
ConstructFrom(i, pipe_components) ==
    IF i > Len(BuildOrder)
    THEN <<>>
    ELSE IF BuildOrder[i].kind = "pipeline" /\ BuildOrder[i].name \notin pipe_components
         THEN <<>>
         ELSE <<BuildOrder[i]>> \o ConstructFrom(i + 1, pipe_components)

\* ServiceContainerBuilder._validate
Missing(pipe_components) == {k \in required_keys : k \notin pipe_components}

\* ServiceContainerBuilder.build: _validate, _create_shared_pipelines and
\* _create_services.
Build(b) ==
    LET b1 == [b EXCEPT !.calls = Append(@, BuilderCall("build", "_validate", b))] IN
    IF Missing(b.pipe_components) # {}
    THEN [b1 EXCEPT !.pc = "raised", !.raised = "KeyError"]
    ELSE LET objects == ConstructFrom(1, b.pipe_components)
             b2 == [b1 EXCEPT !.calls = @ \o
                        <<BuilderCall("build", "_create_shared_pipelines", b)>>
                        \o (IF Len(objects) >= Len(SharedOrder)
                            THEN <<BuilderCall("build", "_create_services", b)>>
                            ELSE <<>>)]
         IN
         IF Len(objects) < Len(BuildOrder)
         THEN [b2 EXCEPT !.pc = "raised", !.raised = "KeyError", !.constructed = objects]
         ELSE [b2 EXCEPT !.pc = "built",
                         !.constructed = Append(objects,
                             [kind |-> "container", name |-> "ServiceContainer"])]

\* ServiceContainerBuilder(settings=..., pipe_components=...)
NewBuilder(settings, pipe_components) ==
    /\ builder.pc = "none"
    /\ builder' = [NoBuilder EXCEPT !.pc = "ready", !.settings = settings,
                                    !.pipe_components = pipe_components]
    /\ UNCHANGED notBuilder

WithSettings(settings) ==
    /\ builder.pc = "ready"
    /\ builder' = [builder EXCEPT !.settings = settings]
    /\ UNCHANGED notBuilder

WithComponents(pipe_components) ==
    /\ builder.pc = "ready"
    /\ builder' = [builder EXCEPT !.pipe_components = pipe_components]
    /\ UNCHANGED notBuilder

\* builder.build()
BuilderBuild ==
    /\ builder.pc = "ready"
    /\ builder' = Build(builder)
    /\ UNCHANGED notBuilder

\* globals.create_service_container(pipe_components, settings)
CreateServiceContainer(pipe_components, settings) ==
    /\ builder.pc = "none"
    /\ LET b == [NoBuilder EXCEPT !.pc = "ready", !.settings = settings,
                                  !.pipe_components = pipe_components] IN
       builder' = Build([b EXCEPT !.calls =
                            <<BuilderCall("create_service_container", "build", b)>>])
    /\ UNCHANGED notBuilder

InitBuilder == builder = NoBuilder

NextBuilder ==
    \/ \E settings \in SettingsObjects, pipe_components \in ComponentSets :
          NewBuilder(settings, pipe_components)
    \/ \E settings \in SettingsObjects : WithSettings(settings)
    \/ \E pipe_components \in ComponentSets : WithComponents(pipe_components)
    \/ BuilderBuild
    \/ \E settings \in SettingsObjects, pipe_components \in ComponentSets :
          CreateServiceContainer(pipe_components, settings)

----------------------------------------------------------------------------
(* The sql answer job and its streaming endpoint                           *)

AnswerIds == {1, 2}

\* num_rows_used_in_llm as the preprocess_sql_data pipeline reports it.
RowCounts == {0, 1}

\* SqlAnswerResultResponse(status=...) with the other fields at their default.
SqlAnswerResultResponse(status) ==
    [status |-> status, num_rows_used_in_llm |-> NoSql, error |-> NoError]

NoAnswerEntry == [present |-> FALSE, age |-> 0, val |-> SqlAnswerResultResponse(None)]

\* What the task did, in the order it did it: its status writes and the
\* creation of the sql_answer pipeline task.
InitAnswerTask == [pc |-> "none", log |-> <<>>]

NoAnswerStream == [called |-> FALSE, id |-> 0, streams |-> FALSE]

\* POST /sql-answers: the record is created and the task enqueued.
SqlAnswerPost(id) ==
    /\ sql_answer[id].pc = "none"
    /\ sql_answer_results' =
          [sql_answer_results EXCEPT ![id] = CacheSet(SqlAnswerResultResponse("preprocessing"))]
    /\ sql_answer' = [sql_answer EXCEPT ![id].pc = "queued"]
    /\ UNCHANGED <<answer_stream, notAnswer>>

\* Mutant: the pipeline task is created before the status is recorded.
SqlAnswerSteps_StartFirst(rows) ==
    <<[write |-> "preprocessing", rows |-> NoSql],
      [write |-> "start", rows |-> NoSql],
      [write |-> "succeeded", rows |-> rows]>>

\* SqlAnswerService.sql_answer when preprocessing returns: steps 1 to 4.
SqlAnswerSteps(rows) ==
    <<[write |-> "preprocessing", rows |-> NoSql],
      [write |-> "succeeded", rows |-> rows],
      [write |-> "start", rows |-> NoSql]>>

\* The status writes of a sequence of steps, in their order.
RECURSIVE StatusWrites(_)
StatusWrites(steps) ==
    IF steps = <<>> THEN <<>>
    ELSE (IF Head(steps).write = "start" THEN <<>> ELSE <<Head(steps)>>)
         \o StatusWrites(Tail(steps))

\* SqlAnswerService.sql_answer: the method awaits nothing, so the task runs
\* from its first line to its return in one step of the event loop. The
\* preprocess_sql_data pipeline returns a row count or raises.
SqlAnswerRun(id, raised, rows) ==
    /\ sql_answer[id].pc = "queued"
    /\ LET steps == IF raised
                    THEN <<[write |-> "preprocessing", rows |-> NoSql],
                           [write |-> "failed", rows |-> NoSql]>>
                    ELSE SqlAnswerSteps(rows)
           writes == StatusWrites(steps)
           last == writes[Len(writes)]
       IN /\ sql_answer_results' =
                [sql_answer_results EXCEPT ![id] =
                    CacheSet([SqlAnswerResultResponse(last.write) EXCEPT
                                 !.num_rows_used_in_llm = last.rows,
                                 !.error = IF last.write = "failed"
                                           THEN AskError("OTHERS", "str(e)")
                                           ELSE NoError])]
          /\ sql_answer' = [sql_answer EXCEPT ![id] =
                               [pc |-> "done",
                                log |-> [i \in 1..Len(steps) |-> steps[i].write]]]
    /\ UNCHANGED <<answer_stream, notAnswer>>

\* Mutant: the generator reads the pipeline for every record it finds.
AnswerStreams_AnyRecord(c) == Readable(c)

\* SqlAnswerService.get_sql_answer_streaming_result: whether the generator
\* iterates the sql_answer pipeline's get_streaming_results.
AnswerStreams(c) == Readable(c) /\ c.val.status = "succeeded"

\* GET /sql-answers/{query_id}/streaming
GetSqlAnswerStreamingResult(id) ==
    /\ answer_stream' = [called |-> TRUE, id |-> id,
                         streams |-> AnswerStreams(sql_answer_results[id])]
    /\ UNCHANGED <<sql_answer_results, sql_answer, notAnswer>>

AnswerTick(id) ==
    /\ sql_answer_results[id].present
    /\ sql_answer_results[id].age < TTL
    /\ sql_answer_results' = [sql_answer_results EXCEPT ![id].age = @ + 1]
    /\ UNCHANGED <<sql_answer, answer_stream, notAnswer>>

InitAnswer ==
    /\ sql_answer_results = [id \in AnswerIds |-> NoAnswerEntry]
    /\ sql_answer = [id \in AnswerIds |-> InitAnswerTask]
    /\ answer_stream = NoAnswerStream

IdleAnswer == InitAnswer

NextAnswer ==
    \/ \E id \in AnswerIds : SqlAnswerPost(id)
    \/ \E id \in AnswerIds, raised \in BOOLEAN, rows \in RowCounts :
          SqlAnswerRun(id, raised, rows)
    \/ \E id \in AnswerIds : GetSqlAnswerStreamingResult(id)
    \/ \E id \in AnswerIds : AnswerTick(id)

----------------------------------------------------------------------------
(* Semantics preparation: the requests submitted for one mdl_hash          *)

\* The requests that may be submitted for the hash.
Preparations == {1, 2}

\* SemanticsPreparationStatusResponse
PreparationStatus(status, error) == [status |-> status, error |-> error]

NoPreparationEntry ==
    [present |-> FALSE, age |-> 0, val |-> PreparationStatus(None, NoError)]

\* SemanticsPreparationService.get_prepare_semantics_status
get_prepare_semantics_status(c) ==
    IF Readable(c) THEN c.val
    ELSE PreparationStatus("failed", AskError("OTHERS", "mdl_hash is not found"))

\* POST /semantics-preparations: the record of the hash is set to indexing
\* and the task is enqueued.
PreparePost(j) ==
    /\ preparations[j].pc = "none"
    /\ prepare_semantics_statuses' = CacheSet(PreparationStatus("indexing", NoError))
    /\ preparations' = [preparations EXCEPT ![j].pc = "queued"]
    /\ submitted' = Append(submitted, j)
    /\ UNCHANGED notPrep

\* prepare_semantics up to the gather of _run_preparation_tasks.
PrepareStart(j) ==
    /\ preparations[j].pc = "queued"
    /\ preparations' = [preparations EXCEPT ![j].pc = "running"]
    /\ UNCHANGED <<prepare_semantics_statuses, submitted, notPrep>>

\* The record prepare_semantics writes when the gather has returned
\* (_update_success_status) or has raised (_handle_exception).
PreparationOutcome(ok) ==
    IF ok THEN PreparationStatus("finished", NoError)
    ELSE PreparationStatus("failed", AskError("OTHERS", "Failed to prepare semantics"))

\* The gather returns or raises, and prepare_semantics runs to its end.
PreparationTasksReturn(j, ok) ==
    /\ preparations[j].pc = "running"
    /\ prepare_semantics_statuses' = CacheSet(PreparationOutcome(ok))
    /\ preparations' = [preparations EXCEPT ![j] =
                           [pc |-> "done", outcome |-> PreparationOutcome(ok).status]]
    /\ UNCHANGED <<submitted, notPrep>>

PrepTick ==
    /\ prepare_semantics_statuses.present
    /\ prepare_semantics_statuses.age < TTL
    /\ prepare_semantics_statuses' = [prepare_semantics_statuses EXCEPT !.age = @ + 1]
    /\ UNCHANGED <<preparations, submitted, notPrep>>

InitPrep ==
    /\ prepare_semantics_statuses = NoPreparationEntry
    /\ preparations = [j \in Preparations |-> [pc |-> "none", outcome |-> None]]
    /\ submitted = <<>>

IdlePrep == InitPrep

NextPrep ==
    \/ \E j \in Preparations : PreparePost(j)
    \/ \E j \in Preparations : PrepareStart(j)
    \/ \E j \in Preparations, ok \in BOOLEAN : PreparationTasksReturn(j, ok)
    \/ PrepTick

----------------------------------------------------------------------------
(* Specifications: one service at a time, the others idle.                 *)

Init ==
    InitAsk /\ InitChart /\ IdleFeedback /\ InitStream /\ InitEvent
    /\ IdleRecommend /\ InitBuilder /\ IdleAskStream /\ IdleAnswer /\ IdlePrep

Next == NextAsk

Spec == Init /\ [][Next]_vars

\* The event loop runs the background task on: an awaited pipeline call
\* returns (with a result or an exception), and the task is resumed.
FairAsk ==
    /\ WF_vars(AskStart)
    /\ WF_vars(HistoricalQuestionReturn)
    /\ WF_vars(SamplesAndInstructionsReturn)
    /\ WF_vars(IntentClassificationReturn)
    /\ WF_vars(HitIntentClassificationReturn)
    /\ WF_vars(SchemaRetrievalReturn)
    /\ WF_vars(ReasoningReturn)
    /\ WF_vars(SqlFunctionsReturn)
    /\ WF_vars(SqlGenerationReturn)
    /\ WF_vars(SqlCorrectionReturn)

SpecAskFair == Spec /\ FairAsk

\* The ask job and the calls of its streaming endpoint.
SpecAskStreaming == Init /\ [][NextAskStreaming]_vars

InitChartOnly ==
    IdleAsk /\ InitChart /\ IdleFeedback /\ InitStream /\ InitEvent
    /\ IdleRecommend /\ InitBuilder /\ IdleAskStream /\ IdleAnswer /\ IdlePrep

SpecChart == InitChartOnly /\ [][NextChart]_vars

\* The chart and chart adjustment jobs when no stop is requested.
NextChartNoStop ==
    \/ PostChart
    \/ ChartStart
    \/ ChartSqlExecutorReturn
    \/ ChartGenerationReturn
    \/ ChartTick
    \/ PostChartAdjustment
    \/ ChartAdjustmentStart
    \/ ChartAdjustmentSqlExecutorReturn
    \/ ChartAdjustmentGenerationReturn
    \/ ChartAdjustmentTick

\* The event loop runs both background tasks on.
FairChart ==
    /\ WF_vars(ChartStart)
    /\ WF_vars(ChartSqlExecutorReturn)
    /\ WF_vars(ChartGenerationReturn)
    /\ WF_vars(ChartAdjustmentStart)
    /\ WF_vars(ChartAdjustmentSqlExecutorReturn)
    /\ WF_vars(ChartAdjustmentGenerationReturn)

SpecChartFair == InitChartOnly /\ [][NextChartNoStop]_vars /\ FairChart

InitFeedbackOnly ==
    IdleAsk /\ InitChart /\ InitFeedback /\ InitStream /\ InitEvent
    /\ IdleRecommend /\ InitBuilder /\ IdleAskStream /\ IdleAnswer /\ IdlePrep

SpecFeedback == InitFeedbackOnly /\ [][NextFeedback]_vars

InitStreamOnly ==
    IdleAsk /\ InitChart /\ IdleFeedback /\ InitStream /\ InitEvent
    /\ IdleRecommend /\ InitBuilder /\ IdleAskStream /\ IdleAnswer /\ IdlePrep

SpecStream == InitStreamOnly /\ [][NextStream]_vars

SpecStreamFair == SpecStream /\ FairStream

InitEventOnly ==
    IdleAsk /\ InitChart /\ IdleFeedback /\ InitStream /\ InitEvent
    /\ IdleRecommend /\ InitBuilder /\ IdleAskStream /\ IdleAnswer /\ IdlePrep

SpecEvent == InitEventOnly /\ [][NextEvent]_vars

InitRecommendOnly ==
    IdleAsk /\ InitChart /\ IdleFeedback /\ InitStream /\ InitEvent
    /\ InitRecommend /\ InitBuilder /\ IdleAskStream /\ IdleAnswer /\ IdlePrep

SpecRecommend == InitRecommendOnly /\ [][NextRecommend]_vars

InitBuilderOnly ==
    IdleAsk /\ InitChart /\ IdleFeedback /\ InitStream /\ InitEvent
    /\ IdleRecommend /\ InitBuilder /\ IdleAskStream /\ IdleAnswer /\ IdlePrep

SpecBuilder == InitBuilderOnly /\ [][NextBuilder]_vars

InitAnswerOnly ==
    IdleAsk /\ InitChart /\ IdleFeedback /\ InitStream /\ InitEvent
    /\ IdleRecommend /\ InitBuilder /\ IdleAskStream /\ InitAnswer
    /\ IdlePrep

SpecAnswer == InitAnswerOnly /\ [][NextAnswer]_vars

InitPrepOnly ==
    IdleAsk /\ InitChart /\ IdleFeedback /\ InitStream /\ InitEvent
    /\ IdleRecommend /\ InitBuilder /\ IdleAskStream /\ IdleAnswer /\ InitPrep

SpecPrep == InitPrepOnly /\ [][NextPrep]_vars


----------------------------------------------------------------------------
(* Properties of the ask job                                               *)

InFlight == {"understanding", "searching", "planning", "generating", "correcting"}

Terminal == {"finished", "failed"}

SqlGenerationPipelines == {"sql_generation", "followup_sql_generation"}

Called(name) == \E i \in 1..Len(task.calls) : task.calls[i] = name

CallCount(t, name) == Cardinality({i \in 1..Len(t.calls) : t.calls[i] = name})

\* C1: once stop_ask has recorded "stopped" for the query id, no later step of
\* the running ask task changes the record to an in-flight status.
C1_StoppedNotResumed ==
    [][(task.pc # "none" /\ IsStopped(ask_results))
        => ask_results'.val.status \notin InFlight]_vars

\* C2: when the intent is classified GENERAL, MISLEADING_QUERY or USER_GUIDE,
\* ask starts exactly the matching assistance pipeline and invokes neither
\* schema retrieval nor SQL reasoning, generation or correction.
C2_Assistance ==
    [GENERAL |-> "data_assistance",
     MISLEADING_QUERY |-> "misleading_assistance",
     USER_GUIDE |-> "user_guide_assistance"]

C2_IsAssistance(name) ==
    name \in {"data_assistance", "misleading_assistance", "user_guide_assistance"}

C2_GeneralIntentRouting ==
    task.intent \in GeneralIntents =>
        /\ SelectSeq(task.calls, C2_IsAssistance) = <<C2_Assistance[task.intent]>>
        /\ \A name \in {"db_schema_retrieval", "sql_generation_reasoning",
                        "followup_sql_generation_reasoning", "sql_generation",
                        "followup_sql_generation", "sql_correction"} : ~Called(name)

C2_Witness ==
    /\ task.pc = "done"
    /\ task.intent = "GENERAL"
    /\ task.hist_docs = <<>>
    /\ Called("data_assistance")

\* C3 as first stated: on a historical-question cache hit ask ends with a
\* response of exactly one result built from the first document, and invokes
\* neither SQL generation nor SQL correction.
C3_FirstResult ==
    LET d == task.hist_docs[1] IN
    <<[sql |-> d.statement,
       type |-> IF d.viewId # None THEN "view" ELSE "llm",
       viewId |-> d.viewId]>>

C3_NoGeneration ==
    \A name \in SqlGenerationPipelines \cup {"sql_correction"} : ~Called(name)

C3_Original ==
    (task.hist_docs # <<>> /\ task.pc = "done") =>
        /\ task.ret.ask_result = C3_FirstResult
        /\ C3_NoGeneration

\* C3, amended: on a historical-question cache hit ask invokes neither SQL
\* generation nor SQL correction, and it ends with a response of exactly one
\* result built from the first document unless the intent classification of
\* the cache-hit path answers GENERAL, MISLEADING_QUERY or USER_GUIDE, in
\* which case it ends with no SQL result.
C3_CacheHit ==
    task.hist_docs # <<>> =>
        /\ C3_NoGeneration
        /\ task.pc = "done" =>
              task.ret.ask_result =
                  IF task.intent \in GeneralIntents THEN <<>> ELSE C3_FirstResult

C3_Witness ==
    /\ Len(task.hist_docs) = 2
    /\ task.hist_docs[1] # task.hist_docs[2]
    /\ task.pc = "done"
    /\ task.intent = "TEXT_TO_SQL"
    /\ task.ret.ask_result # <<>>

\* C4: _correct_sql runs the sql_correction pipeline at most
\* max_sql_correction_retries times, one run per loop iteration, and never
\* again once a run has yielded a valid result.
C4_CorrectionBounded ==
    /\ [](/\ CallCount(task, "sql_correction") <= max_sql_correction_retries
          /\ CallCount(task, "sql_correction") = task.current_retries)
    /\ [][task.api_results # <<>>
            => CallCount(task', "sql_correction") = CallCount(task, "sql_correction")]_vars

C4_Witness ==
    /\ task.pc = "done"
    /\ CallCount(task, "sql_correction") = max_sql_correction_retries
    /\ task.api_results = <<>>

\* C5: a record that was not rewritten for the ttl is not readable:
\* get_ask_result answers failed, OTHERS, "<query_id> is not found".
C5_NotFoundAnswer(r) ==
    /\ r.status = "failed"
    /\ r.error = [code |-> "OTHERS", message |-> "query_id is not found"]
    /\ r.response = <<>>

C5_ExpiredNotReadable ==
    (ask_results.present /\ ask_results.age >= TTL)
        => C5_NotFoundAnswer(get_ask_result(ask_results))

C5_Witness ==
    /\ ask_results.present
    /\ ask_results.age >= TTL
    /\ ask_results.val.status = "finished"
    /\ ask_results.val.response # <<>>

\* C6: while no stop is requested the recorded status never moves backwards in
\* the order understanding, searching, planning, generating, correcting,
\* finished or failed, and once finished or failed is recorded the task has
\* ended.
C6_Rank(status) ==
    CASE status = None -> 0
      [] status = "understanding" -> 1
      [] status = "searching" -> 2
      [] status = "planning" -> 3
      [] status = "generating" -> 4
      [] status = "correcting" -> 5
      [] status \in Terminal -> 6
      [] status = "stopped" -> 7

C6_StatusOrder ==
    /\ []((~stop_requested /\ ask_results.val.status \in Terminal) => task.pc = "done")
    /\ [][~stop_requested'
            => C6_Rank(ask_results'.val.status) >= C6_Rank(ask_results.val.status)]_vars

C6_Witness ==
    /\ ~stop_requested
    /\ task.pc = "done"
    /\ ask_results.val.status = "finished"
    /\ Called("sql_generation_reasoning")
    /\ CallCount(task, "sql_correction") = 2

\* C8: POST /asks writes the record before it enqueues the task, so from the
\* POST on and until the entry expires get_ask_result finds the record.
C8_PostedIsFound ==
    (task.pc # "none" /\ ~(ask_results.present /\ ask_results.age >= TTL))
        => ~C5_NotFoundAnswer(get_ask_result(ask_results))

C8_Witness ==
    /\ task.pc = "queued"
    /\ get_ask_result(ask_results).status = "understanding"

\* A step of the task that ends in _format_final_response or in
\* _format_cached_response: these two return error_type "" or NO_RELEVANT_SQL.
EndsInFormat ==
    /\ task.pc # "done"
    /\ task'.pc = "done"
    /\ task'.ret.type = "TEXT_TO_SQL"
    /\ task'.ret.error_type \in {"", "NO_RELEVANT_SQL"}

C15_Recorded(val, t) ==
    IF t.api_results # <<>>
    THEN val.status = "finished" /\ val.response = t.api_results
    ELSE /\ val.status = "failed"
         /\ val.error = [code |-> "NO_RELEVANT_SQL",
                         message |-> IF t.error_message # None
                                     THEN t.error_message ELSE "No relevant SQL"]
         /\ val.invalid_sql = t.invalid_sql

C15_FinalResponseRecorded ==
    [][(~IsStopped(ask_results) /\ EndsInFormat /\ task.hist_docs = <<>>)
          => C15_Recorded(ask_results'.val, task')]_vars

\* C16: when db_schema_retrieval returns no documents, the job is recorded
\* failed with code NO_RELEVANT_DATA unless it is stopped, ask returns
\* error_type NO_RELEVANT_DATA, and neither SQL reasoning nor SQL generation
\* is invoked.
C16_NoDocuments(c, t) ==
    LET s == AfterSchemaRetrieval(c, t, "empty") IN
    /\ s.c = IF IsStopped(c)
             THEN c
             ELSE CacheSet([AskResultResponse("failed") EXCEPT
                     !.type = "TEXT_TO_SQL",
                     !.is_followup = req.histories,
                     !.error = [code |-> "NO_RELEVANT_DATA", message |-> "No relevant data"]])
    /\ s.t.pc = "done"
    /\ s.t.ret = [ask_result |-> <<>>, type |-> "TEXT_TO_SQL", error_type |-> "NO_RELEVANT_DATA"]
    /\ s.t.calls = t.calls

C16_NoRelevantData ==
    /\ task.pc = "db_schema_retrieval" => C16_NoDocuments(ask_results, task)
    /\ (task.pc = "done" /\ task.ret.error_type = "NO_RELEVANT_DATA") =>
          \A name \in SqlGenerationPipelines \cup
                       {"sql_generation_reasoning", "followup_sql_generation_reasoning",
                        "sql_functions_retrieval", "sql_correction"} : ~Called(name)

C16_Witness ==
    /\ task.pc = "done"
    /\ task.ret.error_type = "NO_RELEVANT_DATA"
    /\ ask_results.val.status = "failed"
    /\ ask_results.val.error.code = "NO_RELEVANT_DATA"
    /\ Called("db_schema_retrieval")

\* The records _update_status is called with: each status, with the reasoning
\* the task holds at the time.
C17_Calls ==
    {[AskResultResponse(status) EXCEPT
          !.sql_generation_reasoning = task.sql_generation_reasoning] :
       status \in InFlight \cup Terminal \cup {"stopped"}}

C18_Retrievals == <<"sql_pairs_retrieval", "instructions_retrieval">>

C18_AfterPipeline(c, t, docs) ==
    LET s == CheckHistoricalQuestion(c, t, FALSE, docs) IN
    IF docs # <<>>
    THEN /\ s.t.cached_result.returned
         /\ s.t.cached_result.hit
         /\ Len(s.t.cached_result.api_results) >= 1
         /\ s.t.cached_result.api_results[1].sql = docs[1].statement
         /\ s.t.cached_result.sql_generation_reasoning = ""
         /\ s.t.cached_result.sql_samples = <<>>
         /\ s.t.cached_result.instructions = <<>>
         /\ \A k \in 1..Len(s.t.calls) :
               s.t.calls[k] \notin {"sql_pairs_retrieval", "instructions_retrieval"}
    ELSE /\ ~s.t.cached_result.returned
         /\ s.t.pc = "sql_samples_and_instructions"
         /\ s.t.calls = t.calls \o C18_Retrievals

C18_CheckHistoricalQuestion ==
    /\ task.pc = "historical_question" =>
          \A docs \in DocumentLists : C18_AfterPipeline(ask_results, task, docs)
    /\ task.pc = "sql_samples_and_instructions" =>
          \A sql_samples \in SampleLists, instructions \in InstructionLists :
              AfterSamplesAndInstructions(ask_results, task, sql_samples, instructions)
                  .t.cached_result
                = CachedResult(FALSE, <<>>, None, sql_samples, instructions)
    /\ task.cached_result.hit =>
          ~Called("sql_pairs_retrieval") /\ ~Called("instructions_retrieval")
    /\ (task.cached_result.returned /\ ~task.cached_result.hit) =>
          /\ task.cached_result.api_results = <<>>
          /\ task.cached_result.sql_generation_reasoning = None

C18_Witness ==
    /\ task.cached_result.returned
    /\ ~task.cached_result.hit
    /\ task.cached_result.sql_samples # <<>>
    /\ task.cached_result.instructions # <<>>
    /\ Called("sql_pairs_retrieval")
    /\ Called("instructions_retrieval")

\* C19: on a cache miss the SQL samples and instructions that
\* _check_historical_question returned are the ones ask passes to intent
\* classification, SQL reasoning and SQL generation.
C19_SamplesPassedOn ==
    (task.cached_result.returned /\ ~task.cached_result.hit) =>
        \A k \in 1..Len(task.passed) :
            /\ task.passed[k].sql_samples = task.cached_result.sql_samples
            /\ task.passed[k].instructions = task.cached_result.instructions

\* C20: when the failed generation result, or the failed result of a
\* correction attempt, has type TIME_OUT, _correct_sql makes no further
\* sql_correction run and returns no results together with the sql and the
\* error of that result.
C20_TimeoutEndsCorrection ==
    /\ [](task.failed_result.type = "TIME_OUT" =>
            /\ task.pc = "done"
            /\ task.api_results = <<>>
            /\ task.ret.ask_result = <<>>
            /\ task.invalid_sql = task.failed_result.sql
            /\ task.error_message = task.failed_result.error)
    /\ [][(task'.failed_result # task.failed_result
            /\ task'.failed_result.type = "TIME_OUT")
          => CallCount(task', "sql_correction") = CallCount(task, "sql_correction")]_vars

C20_Witness ==
    /\ task.pc = "done"
    /\ task.failed_result.type = "TIME_OUT"
    /\ CallCount(task, "sql_correction") = 1
    /\ task.invalid_sql = 1

\* C21: when each of the max_sql_correction_retries correction attempts
\* yields a failed result, _correct_sql returns no results with the sql and
\* the error of the last of them; when an attempt yields a valid result, it
\* returns one result, the corrected sql, with the sql and the error of the
\* failure that attempt was given to correct.
C21_CorrectSqlResult ==
    (task.pc = "done" /\ CallCount(task, "sql_correction") > 0) =>
        /\ (/\ CallCount(task, "sql_correction") = max_sql_correction_retries
            /\ task.failed_result.sql = max_sql_correction_retries)
              => /\ task.api_results = <<>>
                 /\ task.invalid_sql = max_sql_correction_retries
                 /\ task.error_message = task.failed_result.error
        /\ task.api_results # <<>>
              => /\ task.api_results = <<AskResult("corrected", "llm", None)>>
                 /\ task.failed_result.sql = CallCount(task, "sql_correction") - 1
                 /\ task.invalid_sql = task.failed_result.sql
                 /\ task.error_message = task.failed_result.error

C21_Witness ==
    /\ task.pc = "done"
    /\ CallCount(task, "sql_correction") = max_sql_correction_retries
    /\ task.failed_result = FailedResult(max_sql_correction_retries, "DRY_RUN")
    /\ task.invalid_sql = max_sql_correction_retries

\* The pipeline runs of _generate_sql_reasoning and of _generate_sql; ask
\* calls each of the two functions at most once for a job.
ReasoningRuns(t) ==
    CallCount(t, "sql_generation_reasoning") + CallCount(t, "followup_sql_generation_reasoning")

GenerationRuns(t) ==
    CallCount(t, "sql_generation") + CallCount(t, "followup_sql_generation")

GenerateSqlRuns(t) == GenerationRuns(t) + CallCount(t, "sql_functions_retrieval")

\* The variant matches the histories, and the step that enters either
\* function records its status.
C22_VariantAndStatus ==
    /\ [](/\ CallCount(task, "followup_sql_generation_reasoning") > 0 => req.histories
          /\ CallCount(task, "sql_generation_reasoning") > 0 => ~req.histories
          /\ CallCount(task, "followup_sql_generation") > 0 => req.histories
          /\ CallCount(task, "sql_generation") > 0 => ~req.histories)
    /\ [][/\ ReasoningRuns(task') > ReasoningRuns(task)
               => (ask_results'.val.status = "planning" /\ ask_results'.age = 0)
          /\ (GenerateSqlRuns(task) = 0 /\ GenerateSqlRuns(task') > 0)
               => (ask_results'.val.status = "generating" /\ ask_results'.age = 0)]_vars

\* C22 as stated: _generate_sql_reasoning and _generate_sql each run exactly
\* one pipeline per call, the follow-up variant exactly when histories is not
\* empty, and each records its status (planning, generating) before the run.
C22_Original ==
    /\ [](ReasoningRuns(task) <= 1 /\ GenerateSqlRuns(task) <= 1)
    /\ C22_VariantAndStatus

\* C22 amended: _generate_sql_reasoning runs exactly one pipeline per call;
\* _generate_sql runs sql_functions_retrieval first when
\* allow_sql_functions_retrieval is set and then at most one generation
\* pipeline, exactly one when that retrieval did not raise; the follow-up
\* variants run exactly when histories is not empty, and each function
\* records its status (planning, generating) before its first run.
C22_OneVariantPerCall ==
    /\ [](/\ ReasoningRuns(task) <= 1
          /\ GenerationRuns(task) <= 1
          /\ CallCount(task, "sql_functions_retrieval") <= 1
          /\ GenerateSqlRuns(task) > 0 =>
                (CallCount(task, "sql_functions_retrieval") = 1
                    <=> cfg.allow_sql_functions_retrieval)
          /\ GenerationRuns(task) = 0 =>
                task.pc \notin {"sql_correction"})
    /\ [][(task.pc = "sql_functions_retrieval" /\ task'.pc # task.pc)
            => (GenerationRuns(task') = 1 \/ task'.ret.error_type = "OTHERS")]_vars
    /\ C22_VariantAndStatus

C22_Witness ==
    /\ req.histories
    /\ cfg.allow_sql_functions_retrieval
    /\ task.pc = "followup_sql_generation"
    /\ Called("followup_sql_generation_reasoning")
    /\ Called("sql_functions_retrieval")

\* C25: every ask job for which no stop is requested eventually has finished
\* or failed recorded, whatever the pipelines it calls return or raise.
C25_TerminalRecorded ==
    (task.pc = "queued") ~> (stop_requested \/ ask_results.val.status \in Terminal)

\* C27: _update_status never raises. In the step in which ask formats the
\* generated or corrected results of a job that is not stopped, the call
\* returns to ask (which
\* returns the results, not the error of its exception handler); when the
\* record cannot be built (sql_generation_reasoning is the dict {}) the cache
\* is exactly as it was, otherwise the stored record holds the requested
\* status.
C27_UpdateStatusNeverRaises ==
    [][(/\ task.pc \in {"sql_generation", "followup_sql_generation", "sql_correction"}
        /\ task'.pc = "done"
        /\ task'.api_results # <<>>
        /\ ~IsStopped(ask_results))
        => /\ task'.ret.error_type = ""
           /\ task'.ret.ask_result = task'.api_results
           /\ IF task'.sql_generation_reasoning = "{}"
              THEN ask_results' = ask_results
              ELSE /\ ask_results'.present /\ ask_results'.age = 0
                   /\ ask_results'.val.status = "finished"]_vars

C27_Witness ==
    /\ task.pc = "done"
    /\ task.sql_generation_reasoning = "{}"
    /\ task.api_results # <<>>
    /\ ~stop_requested
    /\ ask_results.present /\ ask_results.age > 0
    /\ ask_results.val.status = "correcting"

\* C26: if stop_ask has run for the job before its SQL generation step
\* (step 7 of ask) starts, ask never invokes sql_generation,
\* followup_sql_generation or sql_correction for the job.
C26_StoppedNeverGenerates ==
    [][(stop_requested /\ GenerateSqlRuns(task) = 0)
        => (GenerationRuns(task') = 0 /\ CallCount(task', "sql_correction") = 0)]_vars

----------------------------------------------------------------------------
(* Properties of the chart, chart adjustment and ask feedback jobs         *)

\* C7: an exception raised inside the body of a service entry method is not
\* propagated and the job record is written with status failed and error
\* code OTHERS. Stated for chart and chart_adjustment: the step in which an
\* exception is raised and handled leaves failed / OTHERS in the record.
C7_FailedOthers(c) == c.val.status = "failed" /\ c.val.error.code = "OTHERS"

C7_ExceptionRecorded ==
    [][/\ (chart'.raised /\ ~chart.raised) => C7_FailedOthers(chart_results')
       /\ (chart_adjustment'.raised /\ ~chart_adjustment.raised)
              => C7_FailedOthers(chart_adjustment_results')]_vars

\* C9: once stop_chart / stop_chart_adjustment has recorded "stopped", the
\* running background task never overwrites that record.
C9_ChartStoppedKept ==
    [][/\ (chart.pc # "none" /\ ChartIsStopped(chart_results))
              => chart_results'.val.status = "stopped"
       /\ (chart_adjustment.pc # "none" /\ ChartIsStopped(chart_adjustment_results))
              => chart_adjustment_results'.val.status = "stopped"]_vars

\* C10: once stop_ask_feedback has recorded "stopped", no later write of the
\* running ask_feedback task overwrites that record.
C10_FeedbackStoppedKept ==
    [][(ask_feedback.pc # "none" /\ FeedbackIsStopped(ask_feedback_results))
          => ask_feedback_results'.val.status = "stopped"]_vars

----------------------------------------------------------------------------
(* Properties of the streaming queues                                      *)

RECURSIVE NonEmpty(_)
NonEmpty(seq) ==
    IF seq = <<>> THEN <<>>
    ELSE IF Head(seq) = "" THEN NonEmpty(Tail(seq))
         ELSE <<Head(seq)>> \o NonEmpty(Tail(seq))

IsPrefix(a, b) == Len(a) <= Len(b) /\ SubSeq(b, 1, Len(a)) = a

\* C11: for each query id get_streaming_results yields exactly the non-empty
\* chunk contents _streaming_callback received for the id, in the order it
\* received them: what was yielded is always a prefix of them, and it is all
\* of them when the generator has read the end-of-stream marker.
C11_StreamedInOrder ==
    \A id \in QueryIds :
        /\ IsPrefix(consumer[id].yielded, NonEmpty(received[id]))
        /\ consumer[id].ended_by = "marker"
              => consumer[id].yielded = NonEmpty(received[id])

\* C12: every call of get_streaming_results ends: it never waits longer than
\* the timeout for an item, and once attached it reaches its end, by the
\* marker or by the timeout.
C12_StreamEnds ==
    /\ [](\A id \in QueryIds : consumer[id].waited <= StreamTimeout)
    /\ \A id \in QueryIds :
          (consumer[id].pc = "waiting") ~> (consumer[id].pc = "done")

C12_Witness ==
    \E id \in QueryIds :
        /\ consumer[id].pc = "done"
        /\ consumer[id].ended_by = "timeout"
        /\ consumer[id].yielded # <<>>
        /\ ~finish_seen[id]

----------------------------------------------------------------------------
(* Properties of the result endpoints                                      *)

\* C13: a GET for an id that has no record, because it was never created or
\* because it expired, is answered with HTTP 404 by the result endpoints of
\* sql_question, sql_pairs and instructions.
C13_MissingIs404 ==
    (http_response.svc \in EventServices /\ ~http_response.found)
        => http_response.answer.code = 404

\* C28: every chart job and every chart adjustment job for which no stop is
\* requested eventually has finished or failed recorded, whatever the
\* pipelines return or raise, a generation result from which the result
\* object cannot be built included.
C28_ChartTerminalRecorded ==
    /\ (chart.pc = "queued") ~> (chart_results.val.status \in Terminal)
    /\ (chart_adjustment.pc = "queued")
            ~> (chart_adjustment_results.val.status \in Terminal)

\* C30: with several query ids streamed through one pipeline object, the
\* generator of one id never yields a chunk that the callback received for
\* another id only, although every generator assigns the attribute
\* _streaming_results.
C30_NoCrossTalk ==
    \A id \in QueryIds :
        \A i \in 1..Len(consumer[id].yielded) :
            \E j \in 1..Len(received[id]) :
                received[id][j] = consumer[id].yielded[i]

C30_Witness ==
    /\ consumer[1].pc = "yielded" /\ consumer[2].pc = "waiting"
    /\ consumer[1].yielded = <<"a">> /\ consumer[2].yielded = <<"b">>
    /\ streaming_results = "a"

----------------------------------------------------------------------------
(* Properties of question recommendation and of the container builder      *)

\* C29: at every moment, for every interleaving of the validation tasks of
\* the first round and of the regeneration round, the questions recorded for
\* the event have at most max_categories categories and at most
\* max_questions questions in each category.
C29_QuestionsBounded ==
    recommend_cache.present =>
        /\ LenQuestions(recommend_cache.val.questions) <= recommend.max_categories
        /\ \A c \in Categories :
              recommend_cache.val.questions[c].n <= recommend.max_questions

C29_Witness ==
    /\ recommend.round = 2
    /\ recommend.max_questions = 2
    /\ recommend.max_categories = 1
    /\ Len(validation_tasks) = 2
    /\ validation_tasks[1].category = "x" /\ validation_tasks[2].category = "y"
    /\ \A i \in 1..2 : validation_tasks[i].pc = "done"
    /\ recommend_cache.val.questions["x"].n = 2
    /\ ~recommend_cache.val.questions["y"].present

\* C23: build raises KeyError before it constructs any pipeline or service
\* object whenever a pipeline component that the build uses is absent from
\* pipe_components.
C23_MissingRaisesEarly ==
    (builder.pc \in {"built", "raised"} /\ UsedKeys \ builder.pipe_components # {})
        => (builder.raised = "KeyError" /\ builder.constructed = <<>>)

\* C24: build delegates the creation of the container to
\* create_service_container, which it calls with the builder's
\* pipe_components and settings objects.
C24_BuildDelegates ==
    builder.pc \in {"built", "raised"} =>
        \E i \in 1..Len(builder.calls) :
            builder.calls[i] = BuilderCall("build", "create_service_container", builder)

\* C31: once get_streaming_results for a query id has ended, on the
\* end-of-stream item or on the timeout, _user_queues holds no queue for
\* that id.
C31_NoQueueAfterEnd ==
    \A id \in QueryIds : consumer[id].pc = "done" => ~user_queues[id].exists

\* The pipeline the streaming endpoint is to read for a record: the
\* assistance pipeline of the recorded general_type for a finished GENERAL
\* record, the reasoning pipeline of the job (the follow-up one exactly when
\* the job has histories) for a record in planning, none otherwise.
C32_Expected(c) ==
    IF Readable(c) /\ c.val.status = "finished" /\ c.val.type = "GENERAL"
    THEN CASE c.val.general_type = "USER_GUIDE" -> "user_guide_assistance"
           [] c.val.general_type = "DATA_ASSISTANCE" -> "data_assistance"
           [] c.val.general_type = "MISLEADING_QUERY" -> "misleading_assistance"
           [] OTHER -> ""
    ELSE IF Readable(c) /\ c.val.status = "planning"
         THEN IF req.histories THEN "followup_sql_generation_reasoning"
                               ELSE "sql_generation_reasoning"
         ELSE ""

\* C32: get_ask_streaming_result reads the assistance pipeline matching the
\* general_type of a finished GENERAL record, the follow-up reasoning pipeline
\* if and only if the job has histories for a record in planning, and no
\* pipeline for any other record or for no record; the pipeline it reads is
\* one that ask started for the query id.
C32_StreamsStartedPipeline ==
    [][GetAskStreamingResult =>
          /\ ask_stream'.pipeline = C32_Expected(ask_results)
          /\ ask_stream'.pipeline # "" =>
                /\ ask_stream'.pipeline \in StreamingPipelines
                /\ Called(ask_stream'.pipeline)]_vars

C32_Witness ==
    /\ ask_stream.called
    /\ ask_stream.pipeline = "followup_sql_generation_reasoning"
    /\ Readable(ask_results)
    /\ ask_results.val.status = "planning"
    /\ req.histories
    /\ task.pc = "followup_sql_generation_reasoning"

\* C33: sql_answer records status succeeded before it starts the
\* answer-generation task, and get_sql_answer_streaming_result reads the
\* stream only if the record of the query id has status succeeded when it
\* is called: for a missing, preprocessing or failed record it yields nothing.
C33_SucceededBeforeStream ==
    [][/\ \A id \in AnswerIds : \A i \in 1..Len(sql_answer'[id].log) :
             sql_answer'[id].log[i] = "start" =>
                 /\ i > 1
                 /\ sql_answer'[id].log[i - 1] = "succeeded"
       /\ \A id \in AnswerIds :
             (GetSqlAnswerStreamingResult(id) /\ answer_stream'.streams) =>
                 /\ sql_answer_results[id].present
                 /\ sql_answer_results[id].age < TTL
                 /\ sql_answer_results[id].val.status = "succeeded"
                 /\ sql_answer[id].pc = "done"]_vars

C33_Witness ==
    /\ answer_stream.called
    /\ answer_stream.streams
    /\ answer_stream.id = 1
    /\ sql_answer[1].log = <<"preprocessing", "succeeded", "start">>
    /\ sql_answer_results[2].val.status = "failed"

\* C34: stop_ask replaces whatever is stored for the query id by a bare
\* stopped record: right after it get_ask_result returns status stopped with
\* no response and no error, whether the job was running, had finished or
\* failed, or had no readable record.
C34_StopReplacesRecord ==
    [][StopAsk =>
          LET r == get_ask_result(ask_results') IN
          /\ r = AskResultResponse("stopped")
          /\ r.status = "stopped"
          /\ r.response = <<>>
          /\ r.error = NoError]_vars

C34_Witness ==
    /\ stop_requested
    /\ task.pc = "done"
    /\ task.ret.ask_result # <<>>
    /\ ask_results.age = 0
    /\ get_ask_result(ask_results).status = "stopped"

\* C35: a service configured with allow_intent_classification = false never
\* invokes the intent_classification pipeline and never starts an assistance
\* pipeline, on the cache-hit path and on the cache-miss path.
C35_NoIntentClassification ==
    ~cfg.allow_intent_classification =>
        /\ ~Called("intent_classification")
        /\ \A i \in GeneralIntents : ~Called(AssistancePipeline(i))

\* C36: when two semantics preparations of one mdl_hash overlap, the status
\* readable for the hash (while its record is within its time to live) is
\* indexing as long as either of them is still running, and once both have
\* ended it is the outcome of the one submitted later.
C36_OverlappingPreparations ==
    (Len(submitted) = 2 /\ Readable(prepare_semantics_statuses)) =>
        LET status == get_prepare_semantics_status(prepare_semantics_statuses).status IN
        IF \E j \in Preparations : preparations[j].pc \in {"queued", "running"}
        THEN status = "indexing"
        ELSE status = preparations[submitted[2]].outcome

====
